---- MODULE Spec2Model ----
(***************************************************************************)
(* A model of the databutton development orchestrator:                     *)
(*   - the app registry and the manifest generation (utils/build.py,       *)
(*     decorators/apps/streamlit.py),                                      *)
(*   - the manifest filter (server/dev.py, ComponentsJsonFilter),          *)
(*   - the worker-process supervisor (server/dev.py, StreamlitWatcher) and *)
(*     the file-driven watcher that drives it (DatabuttonRunner),          *)
(*   - the job scheduler (decorators/jobs/schedule.py).                    *)
(* Each part has its own specification over the shared variables; a part's *)
(* specification leaves the other parts' variables unchanged.              *)
(***************************************************************************)
EXTENDS Integers, Sequences, FiniteSets, TLC

VARIABLES
    \* ---- StreamlitWatcher (server/dev.py) ----
    apps,         \* self.apps: stable app id -> StreamlitApp
    processes,    \* self.processes: stable app id -> process handle (a pid)
    os,           \* the OS process table: pid -> [filename, port, alive]
    op,           \* the call in progress: "idle", "update" or "clear"
    tasks,        \* the tasks of the call's task group that have not finished
    failed,       \* a task of the group raised: the call will raise
    ret,          \* what the last finished call returned: "True", "False", "none", "raised"
    prev,         \* history: apps and processes when the call began
    issued,       \* history: the <<kind, key>> tasks the call has started
    everFailed,   \* history: some call has raised
    error,        \* the first exception raised in the call's task group
    \* ---- the manifest file and ComponentsJsonFilter (build.py, dev.py) ----
    disk,         \* .databutton/artifacts.json: Missing, or its text
    raw,          \* the paths with a file change the watcher has not polled
    prev_hash,    \* ComponentsJsonFilter.prev_hash
    lastFilter,   \* history: how the filter's last call ended
    lastEvent,    \* history: the manifest's hash at the last event emitted
    emits,        \* history: flips at every event the filter emits
    \* ---- the registry and generate_components (streamlit.py, build.py) ----
    registry,     \* db.apps._streamlit_apps of the generating process
    lastWrite,    \* history: the last write_artifacts_json call
    \* ---- DatabuttonRunner.create_streamlit_watcher (server/dev.py) ----
    wpc,          \* the watcher's position
    components,   \* the manifest the watcher read last
    atEvent,      \* history: the supervisor's maps when the last event came
    \* ---- Scheduler (decorators/jobs/schedule.py) ----
    now,          \* the clock, in seconds since the schedules were loaded
    jobs,         \* Scheduler.jobs: the Job objects, in load order
    spc,          \* the position of run_continously
    runq,         \* the Job.run tasks of run_pending's task group
    cancelled,    \* history: why Job.run returned CancelJob, per job
    nruns,        \* history: how many times the job's body has started
    lastStart,    \* history: when the job's body last started
    lastEnd,      \* history: when the job's body last ended
    delayed,      \* history: some body has taken time
    dispatched,   \* history: the jobs of the tick in the order run_pending started them
    success,      \* history: jobrun.success of the job's last finished run
    outcome,      \* history: how the body of the job's last finished run ended
    \* ---- DatabuttonRunner.run's task group (server/dev.py) ----
    scope,        \* the task group's cancel scope: "open" or "cancelled"
    culprit,      \* history: the task that cancelled the scope
    sig,          \* the position of signal_handler
    stasks,       \* the stop tasks of the signal handler's clear()
    wt,           \* the components, schedule and web watcher tasks
    runres,       \* DatabuttonRunner.run: "running", "returned" or "raised"
    \* ---- the components watcher and generate_components ----
    srcTree,      \* the files of the project directory
    srcEvents,    \* changes awatch has not yet handed to the source filter
    regens,       \* how many regenerations the watcher has run
    trigger,      \* history: who wrote the path that started the last one
    \* ---- decorators/apps/streamlit.py: _reverse_proxy ----
    pxReq,        \* the request the router received
    pxSent,       \* the upstream requests sent for it
    pxResp,       \* the response returned to the client
    \* ---- utils/build.py: the manifest file while it is written ----
    mfile,        \* the manifest file: the document and how much of its text is there
    mwrite,       \* the position of write_artifacts_json in the generating process
    mseen,        \* history: what the watcher's last read of the file found
    \* ---- decorators/jobs/logger.py: the runs of a task group and the sink ----
    jrelease,     \* the environment's DATABUTTON_RELEASE
    jruns,        \* the Job.run calls, by run_id
    jstdout,      \* sys.stdout: Console or the run_id of the logger installed
    jsink,        \* the operations the remote sink has been sent, by run_id
    jlines,       \* history: which run's body printed into which logger
    jtick,        \* the position of the scheduler loop around run_pending
    jbefore,      \* history: sys.stdout when the last run_pending began
    jerr,         \* whether an exception has left a Job.run
    jfailed,      \* history: some operation of the sink has failed
    \* ---- decorators/apps/streamlit.py: the routes of create_streamlit_router ----
    nready,       \* whether the app's worker listens on its port
    nhttp,        \* the HTTP request proxied for the app
    nws,          \* the websocket connection proxied for the app
    \* ---- DatabuttonRunner.create_webwatcher and server/prod.py ----
    webpc,        \* the web server process: "off", "spawned" or "serving"
    web_raw,      \* the paths with a file change the web watcher has not polled
    web_hash,     \* prev_hash of the web watcher's ComponentsJsonFilter
    web_components, \* prod.py's module-level components
    webRestarted, \* history: the web watcher has restarted the server
    appsRestarted \* history: the worker watcher has finished an event's reconciliation

supVars == <<apps, processes, os, op, tasks, failed, ret, prev, issued, everFailed, error>>
fileVars == <<disk, raw, prev_hash>>
histVars == <<lastFilter, lastEvent, emits, registry, lastWrite>>
runVars == <<wpc, components, atEvent>>
schedVars == <<now, jobs, spc, runq, cancelled, nruns, lastStart, lastEnd, delayed, dispatched, success, outcome>>
orchVars == <<scope, culprit, sig, stasks, wt, runres>>
srcVars == <<srcTree, srcEvents, regens, trigger>>
pxVars == <<pxReq, pxSent, pxResp>>
auxVars == <<srcVars, pxVars>>
wrVars == <<mfile, mwrite, mseen>>
jobVars == <<jrelease, jruns, jstdout, jsink, jlines, jtick, jbefore, jerr, jfailed>>
netVars == <<nready, nhttp, nws>>
webVars == <<webpc, web_raw, web_hash, web_components, webRestarted, appsRestarted>>
moreVars == <<wrVars, jobVars, netVars, webVars>>
extVars == <<orchVars, auxVars, moreVars>>
vars == <<supVars, fileVars, histVars, runVars, schedVars, extVars>>

(***************************************************************************)
(* Bounds of the model.                                                    *)
(***************************************************************************)
MaxApps == 2      \* apps registered in one source tree (supervisor, watcher)
MaxPid == 5       \* processes ever spawned in one run
MaxFileApps == 1  \* apps registered in one source tree (FilterSpec)
MaxReg == 2       \* apps registered in one generating process (BuildSpec)
MaxJobs == 2      \* schedules of the manifest the scheduler loads
MaxTime == 11     \* seconds of scheduler time that are followed
MaxDur == 2       \* seconds a job body may take
MaxRuns == 4      \* executions of a job that are counted
MaxRunIds == 3    \* Job.run calls that are followed (JobSpec)
MaxPrints == 1    \* lines one job body prints

(***************************************************************************)
(* Routes are strings; a string is modelled as the sequence of its         *)
(* characters, which order by code point.                                  *)
(***************************************************************************)
Code(c) == CASE c = "/" -> 47 [] c = "a" -> 97 [] c = "b" -> 98

\* The routes the decorated functions of the source tree may name.
RawRoutes == { <<"/", "a">>, <<"/", "a", "/">>, <<"/", "b", "/">> }

Names == {"f"}

\* The names of the decorated functions in BuildSpec.
BuildNames == {"f", "g"}

NoProc == 0
\* What the process table holds for a process that has exited.
Dead == [filename |-> <<>>, port |-> 0, alive |-> FALSE]
NoApp == [uid |-> <<>>, route |-> <<>>, name |-> "", port |-> 0]
EmptyMap == [k \in {} |-> NoApp]
NoPrev == [apps |-> EmptyMap, processes |-> EmptyMap]

\* Python's str comparison: lexicographic by code point, a proper prefix first.
RECURSIVE StrLess(_, _)
StrLess(s, t) ==
    IF t = <<>> THEN FALSE
    ELSE IF s = <<>> THEN TRUE
    ELSE IF s[1] # t[1] THEN Code(s[1]) < Code(t[1])
    ELSE StrLess(Tail(s), Tail(t))

(***************************************************************************)
(* decorators/apps/streamlit.py                                            *)
(***************************************************************************)
cleaned_route(route) ==
    IF route # <<>> /\ route[Len(route)] = "/" THEN route ELSE Append(route, "/")

\* uid = str(UUID(md5(cleaned_route))): a fixed-width string that is taken to
\* differ for different routes.
Uid(route) == <<"uuid">> \o route

Filename(uid) == <<"tmp-">> \o uid

\* The decorator appends one StreamlitApp, port 0, to the registry.
streamlit(reg, route, name) ==
    Append(reg, [uid |-> Uid(cleaned_route(route)),
                      route |-> cleaned_route(route),
                      name |-> name,
                      port |-> 0])

(***************************************************************************)
(* utils/build.py: generate_artifacts_json                                 *)
(***************************************************************************)
BasePort == 8501

\* Insert index i into the index list s, sorted by route, after every index
\* whose route is not greater (sorted() is stable).
RECURSIVE InsertByRoute(_, _, _)
InsertByRoute(reg, s, i) ==
    IF s = <<>> THEN <<i>>
    ELSE IF StrLess(reg[i].route, reg[s[1]].route) THEN <<i>> \o s
    ELSE <<s[1]>> \o InsertByRoute(reg, Tail(s), i)

\* sorted(registry, key=route) as the list of the registry's indices.
RECURSIVE SortedByRoute(_, _)
SortedByRoute(reg, n) ==
    IF n = 0 THEN <<>> ELSE InsertByRoute(reg, SortedByRoute(reg, n - 1), n)

PositionIn(s, i) == CHOOSE p \in 1..Len(s) : s[p] = i

\* A variant that numbers the apps in the registry's own order.
generate_unsorted(reg) ==
    [i \in 1..Len(reg) |-> [reg[i] EXCEPT !.port = BasePort + (i - 1)]]

\* A variant that gives every app the base port.
generate_uncounted(reg) ==
    [i \in 1..Len(reg) |-> [reg[i] EXCEPT !.port = BasePort]]

\* Ports follow the position in the list sorted by route; the list returned
\* keeps the registry's order.
generate_artifacts_json(reg) ==
    LET order == SortedByRoute(reg, Len(reg))
    IN  [i \in 1..Len(reg) |->
            [reg[i] EXCEPT !.port = BasePort + (PositionIn(order, i) - 1)]]

\* The registries a source tree of at most MaxApps decorated functions gives.
RECURSIVE RegistriesOfLen(_)
RegistriesOfLen(n) ==
    IF n = 0 THEN { <<>> }
    ELSE { streamlit(r, route, name) :
             r \in RegistriesOfLen(n - 1), route \in RawRoutes, name \in Names }

Registries == UNION { RegistriesOfLen(n) : n \in 0..MaxApps }

Manifests == { generate_artifacts_json(r) : r \in Registries }

(***************************************************************************)
(* utils/build.py: the manifest file                                       *)
(***************************************************************************)
\* The schedule lists a manifest of the watcher's model may hold.
ManifestSchedules == { <<>>, <<"job">> }

ArtifactDict(streamlit_apps, schedules) ==
    [streamlit_apps |-> streamlit_apps, schedules |-> schedules]

\* A JSON text: the document and the indentation it is written with.
to_json(artifacts, indent) == [indent |-> indent, doc |-> artifacts]

from_json(text) == text.doc

\* ArtifactDict.__eq__: the two to_json() texts are equal.
ArtifactEq(a, b) == to_json(a, 0) = to_json(b, 0)

File(text) == [exists |-> TRUE, text |-> text]

Missing == [exists |-> FALSE, text |-> to_json(ArtifactDict(<<>>, <<>>), 0)]

read_artifacts_json(d) == from_json(d.text)

\* A variant that writes the file whatever it holds.
write_always(d, artifacts) ==
    [disk |-> File(to_json(artifacts, 2)), wrote |-> TRUE]

\* write_artifacts_json: the file after the call, and whether it was written.
write_artifacts_json(d, artifacts) ==
    IF d.exists /\ ArtifactEq(read_artifacts_json(d), artifacts)
      THEN [disk |-> d, wrote |-> FALSE]
      ELSE [disk |-> File(to_json(artifacts, 2)), wrote |-> TRUE]

(***************************************************************************)
(* server/dev.py: get_components_hash and ComponentsJsonFilter             *)
(***************************************************************************)
\* A path is the sequence of its components.
ManifestPath == <<".databutton", "artifacts.json">>
OtherArtifactsPath == <<"data", "artifacts.json">>
SourcePath == <<"app.py">>
CompiledPath == <<"app.pyc">>
Paths == { ManifestPath, OtherArtifactsPath, SourcePath, CompiledPath }

\* md5(...).hexdigest(): texts with the same digest are taken to be equal.
md5(text) == <<"md5", text>>

HashFalse == <<"False">>

get_components_hash(d) == IF d.exists THEN md5(d.text) ELSE HashFalse

\* watchfiles.DefaultFilter: compiled files (and editor files) are ignored.
DefaultFilterCall(path) == path # CompiledPath

EndsWithArtifactsJson(path) == path[Len(path)] = "artifacts.json"

PathExists(d, path) == IF path = ManifestPath THEN d.exists ELSE TRUE

\* A variant that forgets to store the digest.
FilterKeepsHash(path, d, ph) ==
    IF ~(DefaultFilterCall(path) /\ EndsWithArtifactsJson(path))
      THEN [ret |-> FALSE, prev_hash |-> ph, how |-> "skip"]
    ELSE IF ~PathExists(d, path)
      THEN [ret |-> FALSE, prev_hash |-> ph, how |-> "missing"]
    ELSE IF get_components_hash(d) = ph
      THEN [ret |-> FALSE, prev_hash |-> ph, how |-> "same"]
    ELSE [ret |-> TRUE, prev_hash |-> ph, how |-> "emit"]

\* ComponentsJsonFilter.__call__: what it returns and the prev_hash it leaves.
ComponentsJsonFilter(path, d, ph) ==
    IF ~(DefaultFilterCall(path) /\ EndsWithArtifactsJson(path))
      THEN [ret |-> FALSE, prev_hash |-> ph, how |-> "skip"]
    ELSE IF ~PathExists(d, path)
      THEN [ret |-> FALSE, prev_hash |-> ph, how |-> "missing"]
    ELSE IF get_components_hash(d) = ph
      THEN [ret |-> FALSE, prev_hash |-> ph, how |-> "same"]
    ELSE [ret |-> TRUE, prev_hash |-> get_components_hash(d), how |-> "emit"]

NoWrite == [n |-> 0, artifacts |-> ArtifactDict(<<>>, <<>>), wrote |-> FALSE]

\* The awatch generator hands one changed path to the filter.
FilterCall(path) ==
    /\ path \in raw
    /\ raw' = raw \ {path}
    /\ prev_hash' = ComponentsJsonFilter(path, disk, prev_hash).prev_hash
    /\ disk' = disk

\* generate_components for the source tree as it is now: the manifest is
\* generated and written.
Regenerate(reg, schedules) ==
    LET artifacts == ArtifactDict(generate_artifacts_json(reg), schedules)
        w == write_artifacts_json(disk, artifacts)
    IN  /\ disk' = w.disk
        /\ raw' = raw \cup {SourcePath} \cup (IF w.wrote THEN {ManifestPath} ELSE {})
        /\ prev_hash' = prev_hash

\* The manifest is written again with the bytes it has.
Touch ==
    /\ disk.exists
    /\ raw' = raw \cup {ManifestPath}
    /\ UNCHANGED <<disk, prev_hash>>

\* Another file named artifacts.json, or a compiled file, changes.
TouchOther(path) ==
    /\ path \in {OtherArtifactsPath, CompiledPath}
    /\ raw' = raw \cup {path}
    /\ UNCHANGED <<disk, prev_hash>>

\* The manifest is deleted.
Remove ==
    /\ disk.exists
    /\ disk' = Missing
    /\ raw' = raw \cup {ManifestPath}
    /\ prev_hash' = prev_hash

(***************************************************************************)
(* server/dev.py: StreamlitWatcher                                         *)
(***************************************************************************)
\* f"{app.uid}-{app.port}": the uid has a fixed width, so the string
\* determines the pair.
get_stable_app_id(app) == <<app.uid, app.port>>

Keys(m) == DOMAIN m

Get(m, k, default) == IF k \in DOMAIN m THEN m[k] ELSE default

Put(m, k, v) == [x \in DOMAIN m \cup {k} |-> IF x = k THEN v ELSE m[x]]

Task(kind, key, app, proc, pc) ==
    [kind |-> kind, key |-> key, app |-> app, proc |-> proc, pc |-> pc]

StartTask(key, app) == Task("start", key, app, NoProc, "open")

StopTask(key, proc, app) == Task("stop", key, app, proc, "kill")

\* {id(app): app for app in apps}: a later app of the list replaces an
\* earlier one with the same id.
AppsMap(desired) ==
    LET ids == { get_stable_app_id(desired[i]) : i \in 1..Len(desired) }
        last(k) == CHOOSE i \in 1..Len(desired) :
                      /\ get_stable_app_id(desired[i]) = k
                      /\ \A j \in 1..Len(desired) :
                            get_stable_app_id(desired[j]) = k => j <= i
    IN  [k \in ids |-> desired[last(k)]]

\* A variant that restarts every app that is in both maps.
ShouldRestartAlways(old_app, new_app) == TRUE

\* The branch "This has a new port, we should restart it".
ShouldRestart(old_app, new_app) == old_app.uid # new_app.uid

\* update_processes_from_apps up to the task group's start: the tasks it starts.
UpdateTasks(previous, apps_map, procs) ==
    LET old == Keys(previous)
        new == Keys(apps_map)
    IN  { StartTask(k, apps_map[k]) : k \in new \ old }
          \cup { StopTask(k, Get(procs, k, NoProc), previous[k]) : k \in old \ new }
          \cup { StopTask(k, Get(procs, k, NoProc), previous[k]) :
                   k \in { r \in new \cap old : ShouldRestart(previous[r], apps_map[r]) } }
          \cup { StartTask(k, apps_map[k]) :
                   k \in { r \in new \cap old : ShouldRestart(previous[r], apps_map[r]) } }

\* A variant of the return value that reports a change on every call.
ChangedAlways(previous, apps_map) == TRUE

Changed(previous, apps_map) ==
    (Keys(apps_map) \ Keys(previous)) # {} \/ (Keys(previous) \ Keys(apps_map)) # {}

UpdateBegin(desired) ==
    /\ op = "idle"
    /\ LET apps_map == AppsMap(desired)
           started == UpdateTasks(apps, apps_map, processes)
       IN  /\ apps' = apps_map
           /\ tasks' = started
           /\ issued' = { <<t.kind, t.key>> : t \in started }
           /\ ret' = IF Changed(apps, apps_map) THEN "True" ELSE "False"
    /\ prev' = [apps |-> apps, processes |-> processes]
    /\ op' = "update"
    /\ failed' = FALSE
    /\ UNCHANGED <<processes, os, everFailed, error>>

\* start_process up to the readiness read: open_process spawns the worker and
\* the handle is stored.
StartOpen(t) ==
    /\ t \in tasks /\ t.kind = "start" /\ t.pc = "open"
    /\ Len(os) < MaxPid
    /\ LET pid == Len(os) + 1
       IN  /\ os' = Append(os, [filename |-> Filename(t.app.uid),
                                port |-> t.app.port, alive |-> TRUE])
           /\ processes' = Put(processes, t.key, pid)
           /\ tasks' = (tasks \ {t}) \cup {[t EXCEPT !.pc = "read", !.proc = pid]}
    /\ UNCHANGED <<apps, op, failed, ret, prev, issued, everFailed, error>>

\* The 100 bytes read hold the ready marker: start_process returns.
StartReady(t) ==
    /\ t \in tasks /\ t.kind = "start" /\ t.pc = "read"
    /\ tasks' = tasks \ {t}
    /\ UNCHANGED <<apps, processes, os, op, failed, ret, prev, issued, everFailed, error>>

\* The exceptions start_process and stop_process raise. CouldNotStartError
\* carries the worker's stderr; the others carry no output of the worker.
NoError == "none"
CouldNotStartError == "CouldNotStartError(repr(stderr))"
StartException == "Exception('Error in starting streamlit')"
AttributeError == "AttributeError('NoneType' object has no attribute 'pid')"

\* The call raises what its task group raised first.
Raise(current, exception) == IF current = NoError THEN exception ELSE current

\* A task raised: the group cancels its other tasks. A start is cancelled
\* where it waits; a stop catches the cancellation (bare except) and goes on
\* to its sweep.
Cancelled(ts) == { x \in ts : x.kind = "stop" }

\* The worker's output ends before 100 bytes (it exited, or was killed):
\* CouldNotStartError. Or 100 bytes came without the marker: Exception.
StartFail(t) ==
    /\ t \in tasks /\ t.kind = "start" /\ t.pc = "read"
    /\ \/ /\ os' = [os EXCEPT ![t.proc] = Dead]
          /\ error' = Raise(error, CouldNotStartError)
       \/ /\ os[t.proc].alive /\ os' = os
          /\ error' = Raise(error, StartException)
    /\ tasks' = Cancelled(tasks \ {t})
    /\ failed' = TRUE
    /\ everFailed' = TRUE
    /\ UNCHANGED <<apps, processes, op, ret, prev, issued>>

\* stop_process: process.kill() and process.wait(). With no handle the
\* except branch itself raises (process.pid of None).
StopKill(t) ==
    /\ t \in tasks /\ t.kind = "stop" /\ t.pc = "kill"
    /\ IF t.proc = NoProc
         THEN /\ tasks' = Cancelled(tasks \ {t})
              /\ failed' = TRUE
              /\ everFailed' = TRUE
              /\ error' = Raise(error, AttributeError)
              /\ os' = os
         ELSE /\ os' = [os EXCEPT ![t.proc] = Dead]
              /\ tasks' = (tasks \ {t}) \cup {[t EXCEPT !.pc = "sweep"]}
              /\ UNCHANGED <<failed, everFailed, error>>
    /\ UNCHANGED <<apps, processes, op, ret, prev, issued>>

\* stop_process: the sweep of the process table kills every process whose
\* command line holds the app's script path. With no app every iteration
\* raises and is logged.
Sweep(table, app) ==
    [p \in 1..Len(table) |->
        IF app # NoApp /\ table[p].filename = Filename(app.uid)
          THEN Dead
          ELSE table[p]]

StopSweep(t) ==
    /\ t \in tasks /\ t.kind = "stop" /\ t.pc = "sweep"
    /\ os' = Sweep(os, t.app)
    /\ tasks' = tasks \ {t}
    /\ UNCHANGED <<apps, processes, op, failed, ret, prev, issued, everFailed, error>>

\* The task group is done: update_processes_from_apps returns or raises.
UpdateEnd ==
    /\ op = "update" /\ tasks = {}
    /\ op' = "idle"
    /\ ret' = IF failed THEN "raised" ELSE ret
    /\ failed' = FALSE
    /\ prev' = NoPrev
    /\ issued' = {}
    /\ UNCHANGED <<apps, processes, os, tasks, everFailed>>
    /\ error' = NoError

\* A variant of cancel() that starts no stop.
ClearTasksNone(procs, amap) == {}

\* clear() up to cancel()'s task group: one stop per entry of the process map.
ClearTasks(procs, amap) ==
    { StopTask(k, procs[k], Get(amap, k, NoApp)) : k \in Keys(procs) }

ClearBegin ==
    /\ op = "idle"
    /\ tasks' = ClearTasks(processes, apps)
    /\ issued' = { <<"stop", k>> : k \in Keys(processes) }
    /\ prev' = [apps |-> apps, processes |-> processes]
    /\ op' = "clear"
    /\ failed' = FALSE
    /\ ret' = "none"
    /\ UNCHANGED <<apps, processes, os, everFailed, error>>

ClearEnd ==
    /\ op = "clear" /\ tasks = {}
    /\ op' = "idle"
    /\ IF failed
         THEN ret' = "raised" /\ UNCHANGED <<apps, processes>>
         ELSE ret' = "none" /\ apps' = EmptyMap /\ processes' = EmptyMap
    /\ failed' = FALSE
    /\ prev' = NoPrev
    /\ issued' = {}
    /\ UNCHANGED <<os, tasks, everFailed>>
    /\ error' = NoError

TaskStep ==
    \E t \in tasks :
        \/ StartOpen(t)
        \/ StartReady(t)
        \/ StartFail(t)
        \/ StopKill(t)
        \/ StopSweep(t)

SupInit ==
    /\ apps = EmptyMap
    /\ processes = EmptyMap
    /\ os = <<>>
    /\ op = "idle"
    /\ tasks = {}
    /\ failed = FALSE
    /\ ret = "none"
    /\ prev = NoPrev
    /\ issued = {}
    /\ everFailed = FALSE
    /\ error = NoError

(***************************************************************************)
(* server/dev.py: DatabuttonRunner.run and create_streamlit_watcher        *)
(***************************************************************************)
NoEvent == [apps |-> EmptyMap, processes |-> EmptyMap, live |-> {}]

FileIdle ==
    /\ disk = Missing
    /\ raw = {}
    /\ prev_hash = HashFalse

RunIdle ==
    /\ wpc = "off"
    /\ components = ArtifactDict(<<>>, <<>>)
    /\ atEvent = NoEvent

OtherWatchers == {"components", "schedule", "web"}

OrchIdle ==
    /\ scope = "open"
    /\ culprit = "none"
    /\ sig = "off"
    /\ stasks = {}
    /\ wt = [w \in OtherWatchers |-> "off"]
    /\ runres = "off"

NoRequest == [method |-> "", path |-> <<>>, query |-> "", headers |-> <<>>, body |-> ""]

NoResponse == [status_code |-> 0, upstream |-> 0]

SrcIdle ==
    /\ srcTree = {}
    /\ srcEvents = {}
    /\ regens = 0
    /\ trigger = "none"

PxIdle ==
    /\ pxReq = NoRequest
    /\ pxSent = <<>>
    /\ pxResp = NoResponse

AuxIdle == SrcIdle /\ PxIdle

\* The text of a manifest is written in TextLen pieces.
TextLen == 2

FileOf(doc, upto) == [doc |-> doc, upto |-> upto]

NoSeen == [by |-> "none", upto |-> TextLen, doc |-> ArtifactDict(<<>>, <<>>)]

WrIdle ==
    /\ mfile = FileOf(ArtifactDict(<<>>, <<>>), TextLen)
    /\ mwrite = "idle"
    /\ mseen = NoSeen

Console == 0

RunIds == 1..MaxRunIds

NoRun == [pc |-> "unused", async |-> FALSE, saved |-> Console, success |-> "none",
          exc |-> "none", prints |-> 0, resched |-> FALSE, tick |-> 0]

JobIdle ==
    /\ jrelease = ""
    /\ jruns = [r \in RunIds |-> NoRun]
    /\ jstdout = Console
    /\ jsink = [r \in RunIds |-> <<>>]
    /\ jlines = {}
    /\ jtick = "idle"
    /\ jbefore = Console
    /\ jerr = "none"
    /\ jfailed = FALSE

NetApps == {"a", "b"}

NoHttp == [st |-> "none", status |-> "none", ready |-> FALSE, raised |-> FALSE, aborted |-> FALSE]

NoWs == [st |-> "none", result |-> "none", ready |-> FALSE, inbound |-> "none",
         outbound |-> "none", fwd |-> "none", rev |-> "none"]

NetIdle ==
    /\ nready = [app \in NetApps |-> FALSE]
    /\ nhttp = [app \in NetApps |-> NoHttp]
    /\ nws = [app \in NetApps |-> NoWs]

WebIdle ==
    /\ webpc = "off"
    /\ web_raw = {}
    /\ web_hash = HashFalse
    /\ web_components = ArtifactDict(<<>>, <<>>)
    /\ webRestarted = FALSE
    /\ appsRestarted = FALSE

MoreIdle == WrIdle /\ JobIdle /\ NetIdle /\ WebIdle

ExtIdle == OrchIdle /\ AuxIdle /\ MoreIdle

SchedIdle ==
    /\ now = 0
    /\ jobs = <<>>
    /\ spc = "off"
    /\ runq = {}
    /\ cancelled = <<>>
    /\ nruns = <<>>
    /\ lastStart = <<>>
    /\ lastEnd = <<>>
    /\ delayed = FALSE
    /\ dispatched = <<>>
    /\ success = <<>>
    /\ outcome = <<>>

HistIdle ==
    /\ lastFilter = "none"
    /\ lastEvent = HashFalse
    /\ emits = FALSE
    /\ registry = <<>>
    /\ lastWrite = NoWrite

\* run(): generate_components writes the manifest of the source tree, its
\* hash becomes initial_hash, the filter's starting hash.
RunInit ==
    /\ \E reg \in Registries :
          disk = File(to_json(ArtifactDict(generate_artifacts_json(reg), <<>>), 2))
    /\ raw = {}
    /\ prev_hash = get_components_hash(disk)
    /\ wpc = "start"
    /\ components = ArtifactDict(<<>>, <<>>)
    /\ atEvent = NoEvent

\* create_streamlit_watcher: the manifest is read and the first
\* reconciliation begins.
WatcherStart ==
    /\ wpc = "start"
    /\ components' = read_artifacts_json(disk)
    /\ UpdateBegin(components'.streamlit_apps)
    /\ wpc' = "first"
    /\ UNCHANGED <<atEvent, fileVars>>

\* The reconciliation returns: the watcher waits for the next event (awatch
\* starts after the first reconciliation and sees no earlier change). If the
\* reconciliation raised, the watcher ends with the error.
WatcherUpdateEnd ==
    /\ wpc \in {"first", "update"}
    /\ UpdateEnd
    /\ wpc' = IF failed THEN "crashed" ELSE "watch"
    /\ raw' = IF wpc = "first" THEN {} ELSE raw
    /\ UNCHANGED <<components, atEvent, disk, prev_hash>>

\* awatch polls: a changed path goes through the filter; if the filter lets
\* it through, the loop body starts.
WatcherPoll(path) ==
    /\ wpc = "watch"
    /\ FilterCall(path)
    /\ wpc' = IF ComponentsJsonFilter(path, disk, prev_hash).ret THEN "event" ELSE "watch"
    /\ UNCHANGED <<components, atEvent, supVars>>

\* The loop body: read_artifacts_json, then clear() begins.
WatcherEvent ==
    /\ wpc = "event"
    /\ components' = read_artifacts_json(disk)
    /\ ClearBegin
    /\ atEvent' = [apps |-> apps, processes |-> processes,
                   live |-> { k \in Keys(processes) : os[processes[k]].alive }]
    /\ wpc' = "clear"
    /\ UNCHANGED fileVars

\* A variant that does not wait for clear() to return.
WatcherClearNoWait ==
    /\ wpc = "clear"
    /\ wpc' = "cleared"
    /\ UNCHANGED <<supVars, components, atEvent, fileVars>>

WatcherClearEnd ==
    /\ wpc = "clear"
    /\ ClearEnd
    /\ wpc' = IF failed THEN "crashed" ELSE "cleared"
    /\ UNCHANGED <<components, atEvent, fileVars>>

WatcherUpdate ==
    /\ wpc = "cleared"
    /\ UpdateBegin(components.streamlit_apps)
    /\ wpc' = "update"
    /\ UNCHANGED <<components, atEvent, fileVars>>

\* The source tree changes and the manifest is regenerated, or the manifest
\* is written again as it is.
WatcherFileChange ==
    /\ wpc # "crashed"
    /\ \/ \E reg \in Registries : Regenerate(reg, <<>>)
       \/ Touch
    /\ UNCHANGED <<supVars, runVars>>

RunnerInit == SupInit /\ RunInit /\ HistIdle /\ SchedIdle /\ ExtIdle

RunnerNext ==
    \/ WatcherStart /\ UNCHANGED <<histVars, schedVars, extVars>>
    \/ TaskStep /\ UNCHANGED <<fileVars, runVars, histVars, schedVars, extVars>>
    \/ WatcherUpdateEnd /\ UNCHANGED <<histVars, schedVars, extVars>>
    \/ (\E path \in Paths : WatcherPoll(path)) /\ UNCHANGED <<histVars, schedVars, extVars>>
    \/ WatcherEvent /\ UNCHANGED <<histVars, schedVars, extVars>>
    \/ WatcherClearEnd /\ UNCHANGED <<histVars, schedVars, extVars>>
    \/ WatcherUpdate /\ UNCHANGED <<histVars, schedVars, extVars>>
    \/ WatcherFileChange /\ UNCHANGED <<histVars, schedVars, extVars>>

RunnerSpec == RunnerInit /\ [][RunnerNext]_vars

(***************************************************************************)
(* FilterSpec: the manifest file and one ComponentsJsonFilter, under any   *)
(* sequence of regenerations, rewrites and removals of the manifest.       *)
(***************************************************************************)
\* The source trees of FilterSpec: at most MaxFileApps decorated functions.
FileRegistries == UNION { RegistriesOfLen(n) : n \in 0..MaxFileApps }

FilterStep(path) ==
    /\ FilterCall(path)
    /\ lastFilter' = ComponentsJsonFilter(path, disk, prev_hash).how
    /\ lastEvent' = IF ComponentsJsonFilter(path, disk, prev_hash).ret
                      THEN get_components_hash(disk) ELSE lastEvent
    /\ emits' = IF ComponentsJsonFilter(path, disk, prev_hash).ret THEN ~emits ELSE emits
    /\ UNCHANGED <<registry, lastWrite>>

\* A file that is not the manifest changes while no such change is waiting.
OtherChange(path) ==
    /\ raw \subseteq {ManifestPath}
    /\ TouchOther(path)

FilterInit ==
    /\ \E reg \in FileRegistries, sch \in ManifestSchedules :
          disk = File(to_json(ArtifactDict(generate_artifacts_json(reg), sch), 2))
    /\ raw = {}
    /\ prev_hash = get_components_hash(disk)
    /\ lastFilter = "none"
    /\ lastEvent = get_components_hash(disk)
    /\ emits = FALSE
    /\ registry = <<>>
    /\ lastWrite = NoWrite
    /\ SupInit
    /\ RunIdle
    /\ SchedIdle
    /\ ExtIdle

FilterNext ==
    \/ (\E path \in Paths : FilterStep(path)) /\ UNCHANGED <<supVars, runVars, schedVars, extVars>>
    \/ (\E reg \in FileRegistries, sch \in ManifestSchedules : Regenerate(reg, sch))
          /\ UNCHANGED <<histVars, supVars, runVars, schedVars, extVars>>
    \/ Touch /\ UNCHANGED <<histVars, supVars, runVars, schedVars, extVars>>
    \/ (\E path \in Paths : OtherChange(path)) /\ UNCHANGED <<histVars, supVars, runVars, schedVars, extVars>>
    \/ Remove /\ UNCHANGED <<histVars, supVars, runVars, schedVars, extVars>>

FilterSpec == FilterInit /\ [][FilterNext]_vars

(***************************************************************************)
(* BuildSpec: the registry of one generating process after another, and    *)
(* generate_components writing the manifest.                               *)
(***************************************************************************)
\* A directive module is imported: a decorated function registers its app.
Decorate(route, name) ==
    /\ Len(registry) < MaxReg
    /\ registry' = streamlit(registry, route, name)
    /\ UNCHANGED <<disk, lastWrite>>

\* generate_components: the ports are assigned (in the registry's own
\* objects) and the manifest is written.
GenerateComponents(schedules) ==
    LET artifacts == ArtifactDict(generate_artifacts_json(registry), schedules)
        w == write_artifacts_json(disk, artifacts)
    IN  /\ registry' = artifacts.streamlit_apps
        /\ disk' = w.disk
        /\ lastWrite' = [n |-> 1 - lastWrite.n, artifacts |-> artifacts, wrote |-> w.wrote]

\* The generating process ends: the next one starts with an empty registry.
NewProcess ==
    /\ registry # <<>>
    /\ registry' = <<>>
    /\ UNCHANGED <<disk, lastWrite>>

RemoveManifest ==
    /\ disk.exists
    /\ disk' = Missing
    /\ UNCHANGED <<registry, lastWrite>>

BuildInit ==
    /\ FileIdle
    /\ HistIdle
    /\ SupInit
    /\ RunIdle
    /\ SchedIdle
    /\ ExtIdle

BuildNext ==
    \/ (\E route \in RawRoutes, name \in BuildNames : Decorate(route, name))
          /\ UNCHANGED <<raw, prev_hash, lastFilter, lastEvent, emits, supVars, runVars, schedVars, extVars>>
    \/ (\E sch \in ManifestSchedules : GenerateComponents(sch))
          /\ UNCHANGED <<raw, prev_hash, lastFilter, lastEvent, emits, supVars, runVars, schedVars, extVars>>
    \/ NewProcess
          /\ UNCHANGED <<raw, prev_hash, lastFilter, lastEvent, emits, supVars, runVars, schedVars, extVars>>
    \/ RemoveManifest
          /\ UNCHANGED <<raw, prev_hash, lastFilter, lastEvent, emits, supVars, runVars, schedVars, extVars>>

BuildSpec == BuildInit /\ [][BuildNext]_vars

(***************************************************************************)
(* decorators/jobs/schedule.py: Job and Scheduler. Job and Scheduler       *)
(* extend the classes of the schedule package, which supplies should_run,  *)
(* _schedule_next_run, _is_overdue and do.                                 *)
(***************************************************************************)
NoTime == -1

DatabuttonSchedule(seconds, cancel_on_failure, run_immediately) ==
    [seconds |-> seconds, cancel_on_failure |-> cancel_on_failure,
     run_immediately |-> run_immediately]

\* The schedules a manifest of the scheduler's model may hold.
ScheduleDefs ==
    { DatabuttonSchedule(s, c, r) : s \in {1, 5}, c \in BOOLEAN, r \in BOOLEAN }

RECURSIVE ScheduleLists(_)
ScheduleLists(n) ==
    IF n = 0 THEN { <<>> }
    ELSE { Append(l, d) : l \in ScheduleLists(n - 1), d \in ScheduleDefs }

\* Due: the current time has reached next_run.
should_run(job, t) == t >= job.next_run

\* The next run is one interval after the time of the call.
schedule_next_run(job, t) == [job EXCEPT !.next_run = t + job.sched.seconds]

\* The overdue guard: next_run is more than one interval behind.
is_overdue(job, t) == t - job.next_run > job.sched.seconds

\* every(seconds).seconds.from_databutton_schedule(sched): do() schedules the
\* first run and appends the job to Scheduler.jobs.
NewJob(sched, t) ==
    schedule_next_run([sched |-> sched, next_run |-> NoTime, last_run |-> NoTime], t)

\* load_schedules: one job per schedule of the manifest, in its order.
load_schedules(schedules, t) == [i \in 1..Len(schedules) |-> NewJob(schedules[i], t)]

should_run_immediately(js) == { i \in 1..Len(js) : js[i].sched.run_immediately }

\* A variant that does not force the jobs of the override list.
RunnableUnforced(js, override, t) ==
    LET job_pool == IF override # {} THEN override ELSE 1..Len(js)
    IN  { i \in job_pool : should_run(js[i], t) }

\* A variant that starts every job of the pool, due or not.
RunnableAlways(js, override, t) ==
    IF override # {} THEN override ELSE 1..Len(js)

\* run_pending: the jobs it starts. An empty override list is no override.
Runnable(js, override, t) ==
    LET job_pool == IF override # {} THEN override ELSE 1..Len(js)
        force == override # {}
    IN  { i \in job_pool : should_run(js[i], t) \/ force }

\* The jobs of a set as a list in the order of the job list.
RECURSIVE InListOrder(_, _)
InListOrder(n, set) ==
    IF n = 0 THEN <<>>
    ELSE IF n \in set THEN Append(InListOrder(n - 1, set), n)
    ELSE InListOrder(n - 1, set)

\* Job.__lt__ compares next_run; sorted() is stable.
RECURSIVE InsertByNextRun(_, _, _)
InsertByNextRun(js, s, i) ==
    IF s = <<>> THEN <<i>>
    ELSE IF js[i].next_run < js[s[1]].next_run THEN <<i>> \o s
    ELSE <<s[1]>> \o InsertByNextRun(js, Tail(s), i)

RECURSIVE SortList(_, _)
SortList(js, l) ==
    IF l = <<>> THEN <<>>
    ELSE InsertByNextRun(js, SortList(js, SubSeq(l, 1, Len(l) - 1)), l[Len(l)])

\* A variant that starts the jobs in the order of the job list.
unsorted(js, runnable) == InListOrder(Len(js), runnable)

\* sorted(runnable_jobs): the order in which run_pending starts the runs.
sorted(js, runnable) == SortList(js, InListOrder(Len(js), runnable))

JobTask(i) == [job |-> i, pc |-> "start"]

\* run_continously: first run_pending(override=should_run_immediately), then
\* run_pending() and sleep(1) for ever.
RunPendingBegin ==
    /\ spc \in {"first", "tick"}
    /\ dispatched' = sorted(jobs, Runnable(jobs, IF spc = "first" THEN should_run_immediately(jobs)
                                                                   ELSE {}, now))
    /\ runq' = runq \cup { JobTask(dispatched'[k]) : k \in 1..Len(dispatched') }
    /\ spc' = IF spc = "first" THEN "running_first" ELSE "running"
    /\ UNCHANGED <<now, jobs, cancelled, nruns, lastStart, lastEnd, delayed, success, outcome>>

\* A variant that records every run as a success.
jobrun_success_always(raises) == "True"

\* jobrun.success: False from JobRunLogger.__init__ and in the except branch,
\* True once the body has returned.
jobrun_success(raises) == IF raises THEN "False" ELSE "True"

\* Executions are counted up to MaxRuns, which stands for "MaxRuns or more".
Count(n) == IF n < MaxRuns THEN n + 1 ELSE n

\* Job.run up to the body: the overdue guard returns CancelJob at once;
\* otherwise the body starts.
JobStart(t) ==
    /\ t \in runq /\ t.pc = "start"
    /\ IF is_overdue(jobs[t.job], now)
         THEN /\ runq' = runq \ {t}
              /\ cancelled' = [cancelled EXCEPT ![t.job] = "overdue"]
              /\ UNCHANGED <<nruns, lastStart>>
         ELSE /\ runq' = (runq \ {t}) \cup {[t EXCEPT !.pc = "body"]}
              /\ nruns' = [nruns EXCEPT ![t.job] = Count(@)]
              /\ lastStart' = [lastStart EXCEPT ![t.job] = now]
              /\ UNCHANGED cancelled
    /\ UNCHANGED <<now, jobs, spc, lastEnd, delayed, dispatched, success, outcome>>

\* Job.run after the body, which returned or raised: last_run,
\* _schedule_next_run, the second overdue guard, and the value returned
\* (which run_pending does not look at).
JobFinish(t, raises) ==
    /\ t \in runq /\ t.pc = "body"
    /\ LET job == schedule_next_run([jobs[t.job] EXCEPT !.last_run = lastStart[t.job]], now)
           res == IF is_overdue(job, now) THEN "overdue"
                  ELSE IF raises /\ job.sched.cancel_on_failure THEN "failure"
                  ELSE "no"
       IN  /\ jobs' = [jobs EXCEPT ![t.job] = job]
           /\ cancelled' = [cancelled EXCEPT ![t.job] = IF res = "no" THEN @ ELSE res]
    /\ runq' = runq \ {t}
    /\ lastEnd' = [lastEnd EXCEPT ![t.job] = now]
    /\ success' = [success EXCEPT ![t.job] = jobrun_success(raises)]
    /\ outcome' = [outcome EXCEPT ![t.job] = IF raises THEN "raised" ELSE "returned"]
    /\ UNCHANGED <<now, spc, nruns, lastStart, delayed, dispatched>>

\* A second passes while bodies run; no body takes more than MaxDur.
BodyTime ==
    /\ spc \in {"running_first", "running"}
    /\ \E t \in runq : t.pc = "body"
    /\ \A t \in runq : t.pc = "body" => now - lastStart[t.job] < MaxDur
    /\ now < MaxTime
    /\ now' = now + 1
    /\ delayed' = TRUE
    /\ UNCHANGED <<jobs, spc, runq, cancelled, nruns, lastStart, lastEnd, dispatched, success, outcome>>

\* A variant of run_pending that returns without waiting for its tasks.
task_group_no_wait(q) == TRUE

\* "async with create_task_group() as tg" is left when every task of the
\* group has ended.
task_group_exit(q) == q = {}

\* The task group is done: run_pending returns.
RunPendingEnd ==
    /\ spc \in {"running_first", "running"}
    /\ task_group_exit(runq)
    /\ spc' = IF spc = "running_first" THEN "tick" ELSE "sleep"
    /\ dispatched' = <<>>
    /\ UNCHANGED <<now, jobs, runq, cancelled, nruns, lastStart, lastEnd, delayed, success, outcome>>

\* anyio.sleep(1)
Sleep ==
    /\ spc = "sleep"
    /\ now < MaxTime
    /\ now' = now + 1
    /\ spc' = "tick"
    /\ UNCHANGED <<jobs, runq, cancelled, nruns, lastStart, lastEnd, delayed, dispatched, success, outcome>>

\* Scheduler.create: the schedules of the manifest are loaded at time 0.
SchedInit ==
    /\ now = 0
    /\ \E n \in 1..MaxJobs : \E schedules \in ScheduleLists(n) :
          jobs = load_schedules(schedules, 0)
    /\ spc = "first"
    /\ runq = {}
    /\ cancelled = [i \in 1..Len(jobs) |-> "no"]
    /\ nruns = [i \in 1..Len(jobs) |-> 0]
    /\ lastStart = [i \in 1..Len(jobs) |-> NoTime]
    /\ lastEnd = [i \in 1..Len(jobs) |-> NoTime]
    /\ delayed = FALSE
    /\ dispatched = <<>>
    /\ success = [i \in 1..Len(jobs) |-> "none"]
    /\ outcome = [i \in 1..Len(jobs) |-> "none"]
    /\ SupInit /\ FileIdle /\ HistIdle /\ RunIdle /\ ExtIdle

SchedNext ==
    \/ RunPendingBegin /\ UNCHANGED <<supVars, fileVars, histVars, runVars, extVars>>
    \/ (\E t \in runq : JobStart(t)) /\ UNCHANGED <<supVars, fileVars, histVars, runVars, extVars>>
    \/ (\E t \in runq, raises \in BOOLEAN : JobFinish(t, raises))
          /\ UNCHANGED <<supVars, fileVars, histVars, runVars, extVars>>
    \/ BodyTime /\ UNCHANGED <<supVars, fileVars, histVars, runVars, extVars>>
    \/ RunPendingEnd /\ UNCHANGED <<supVars, fileVars, histVars, runVars, extVars>>
    \/ Sleep /\ UNCHANGED <<supVars, fileVars, histVars, runVars, extVars>>

SchedSpec == SchedInit /\ [][SchedNext]_vars

(***************************************************************************)
(* server/dev.py: DatabuttonRunner.run. One task group holds the signal    *)
(* handler and the four watchers; OrchSpec follows the worker-process      *)
(* watcher step by step and the other three by whether they still run.     *)
(***************************************************************************)
\* A child of the task group raised, or scope.cancel() was called.
CancelScope(who) ==
    /\ scope' = "cancelled"
    /\ culprit' = IF culprit = "none" THEN who ELSE culprit

\* A step of create_streamlit_watcher; an error it does not catch ends the
\* task and cancels the scope.
WatcherTask(step) ==
    /\ scope = "open"
    /\ step
    /\ IF wpc' = "crashed" THEN CancelScope("streamlit") ELSE UNCHANGED <<scope, culprit>>
    /\ UNCHANGED <<sig, stasks, wt, runres>>

\* The start_process tasks of the watcher's reconciliation.
OrchStartStep ==
    /\ scope = "open"
    /\ \E t \in tasks : StartOpen(t) \/ StartReady(t) \/ StartFail(t)
    /\ UNCHANGED <<fileVars, runVars, orchVars>>

\* The stop_process tasks of the watcher's calls; under cancellation they go
\* on to the end (bare except).
OrchStopStep ==
    /\ \E t \in tasks : StopKill(t) \/ StopSweep(t)
    /\ UNCHANGED <<fileVars, runVars, orchVars>>

\* The source tree changes while the watcher waits, up to the first event
\* the watcher handles.
OrchFileChange ==
    /\ scope = "open"
    /\ wpc = "watch"
    /\ raw = {}
    /\ atEvent = NoEvent
    /\ WatcherFileChange
    /\ UNCHANGED orchVars

\* SIGINT arrives: signal_handler calls self.streamlit_watcher.clear(), whose
\* cancel() starts one stop per entry of the process map. The attribute
\* streamlit_watcher exists once create_streamlit_watcher has begun.
Signal ==
    /\ sig = "wait"
    /\ scope = "open"
    /\ IF wpc = "start"
         THEN /\ sig' = "failed"
              /\ stasks' = {}
              /\ CancelScope("signal_handler error")
         ELSE /\ sig' = "clearing"
              /\ stasks' = ClearTasks(processes, apps)
              /\ UNCHANGED <<scope, culprit>>
    /\ UNCHANGED <<supVars, fileVars, runVars, wt, runres>>

\* stop_process of the signal handler's clear(): kill and wait.
SigStopKill(t) ==
    /\ t \in stasks /\ t.pc = "kill"
    /\ os' = [os EXCEPT ![t.proc] = Dead]
    /\ stasks' = (stasks \ {t}) \cup {[t EXCEPT !.pc = "sweep"]}
    /\ UNCHANGED <<apps, processes, op, tasks, failed, ret, prev, issued, everFailed, error>>
    /\ UNCHANGED <<fileVars, runVars, scope, culprit, sig, wt, runres>>

\* stop_process of the signal handler's clear(): the sweep.
SigStopSweep(t) ==
    /\ t \in stasks /\ t.pc = "sweep"
    /\ os' = Sweep(os, t.app)
    /\ stasks' = stasks \ {t}
    /\ UNCHANGED <<apps, processes, op, tasks, failed, ret, prev, issued, everFailed, error>>
    /\ UNCHANGED <<fileVars, runVars, scope, culprit, sig, wt, runres>>

\* clear() empties both maps and signal_handler calls scope.cancel(). If the
\* scope was cancelled meanwhile, the handler ends at cancel()'s task group.
SigClearEnd ==
    /\ sig = "clearing" /\ stasks = {}
    /\ IF scope = "open"
         THEN /\ apps' = EmptyMap
              /\ processes' = EmptyMap
              /\ sig' = "done"
              /\ CancelScope("signal")
         ELSE /\ sig' = "cancelled"
              /\ UNCHANGED <<apps, processes, scope, culprit>>
    /\ UNCHANGED <<os, op, tasks, failed, ret, prev, issued, everFailed, error>>
    /\ UNCHANGED <<fileVars, runVars, stasks, wt, runres>>

\* A variant in which a watcher's error does not reach the task group.
OtherTaskErrorIsolated(w) ==
    /\ scope = "open"
    /\ wt[w] = "running"
    /\ wt' = [wt EXCEPT ![w] = "failed"]
    /\ UNCHANGED <<supVars, fileVars, runVars, scope, culprit, sig, stasks, runres>>

\* One of the other watchers ends with an error it does not handle: the
\* task group cancels the scope.
OtherTaskError(w) ==
    /\ scope = "open"
    /\ wt[w] = "running"
    /\ wt' = [wt EXCEPT ![w] = "failed"]
    /\ CancelScope(w)
    /\ UNCHANGED <<supVars, fileVars, runVars, sig, stasks, runres>>

\* scope.cancel() reaches, at once, every task that waits at a checkpoint:
\* the watchers waiting in arun_process and the handler waiting for a signal.
CancelDeliver ==
    /\ scope = "cancelled"
    /\ sig = "wait" \/ \E w \in OtherWatchers : wt[w] = "running"
    /\ wt' = [w \in OtherWatchers |-> IF wt[w] = "running" THEN "cancelled" ELSE wt[w]]
    /\ sig' = IF sig = "wait" THEN "cancelled" ELSE sig
    /\ UNCHANGED <<supVars, fileVars, runVars, scope, culprit, stasks, runres>>

\* The cancellation reaches create_streamlit_watcher: the starts of its call
\* are cancelled where they wait, its stops go on, and then the task ends.
WatcherCancelled ==
    /\ scope = "cancelled"
    /\ wpc \notin {"cancelled", "crashed"}
    /\ IF \E t \in tasks : t.kind = "start"
         THEN tasks' = Cancelled(tasks) /\ UNCHANGED <<wpc, op>>
         ELSE tasks = {} /\ wpc' = "cancelled" /\ op' = "idle" /\ UNCHANGED tasks
    /\ UNCHANGED <<apps, processes, os, failed, ret, prev, issued, everFailed, error>>
    /\ UNCHANGED <<fileVars, components, atEvent, orchVars>>

\* Every task has ended: the task group exits and run returns, or raises
\* what a task raised.
RunEnd ==
    /\ runres = "running"
    /\ sig \in {"done", "cancelled", "failed"}
    /\ wpc \in {"cancelled", "crashed"}
    /\ \A w \in OtherWatchers : wt[w] # "running"
    /\ runres' = IF culprit = "signal" THEN "returned" ELSE "raised"
    /\ UNCHANGED <<supVars, fileVars, runVars, scope, culprit, sig, stasks, wt>>

OrchInit ==
    /\ SupInit /\ RunInit /\ HistIdle /\ SchedIdle /\ AuxIdle /\ MoreIdle
    /\ scope = "open"
    /\ culprit = "none"
    /\ sig = "wait"
    /\ stasks = {}
    /\ wt = [w \in OtherWatchers |-> "running"]
    /\ runres = "running"

OrchNext ==
    \/ WatcherTask(WatcherStart) /\ UNCHANGED <<histVars, schedVars, auxVars, moreVars>>
    \/ WatcherTask(WatcherUpdateEnd) /\ UNCHANGED <<histVars, schedVars, auxVars, moreVars>>
    \/ WatcherTask(\E path \in Paths : WatcherPoll(path)) /\ UNCHANGED <<histVars, schedVars, auxVars, moreVars>>
    \/ WatcherTask(WatcherEvent) /\ UNCHANGED <<histVars, schedVars, auxVars, moreVars>>
    \/ WatcherTask(WatcherClearEnd) /\ UNCHANGED <<histVars, schedVars, auxVars, moreVars>>
    \/ WatcherTask(WatcherUpdate) /\ UNCHANGED <<histVars, schedVars, auxVars, moreVars>>
    \/ OrchStartStep /\ UNCHANGED <<histVars, schedVars, auxVars, moreVars>>
    \/ OrchStopStep /\ UNCHANGED <<histVars, schedVars, auxVars, moreVars>>
    \/ OrchFileChange /\ UNCHANGED <<histVars, schedVars, auxVars, moreVars>>
    \/ Signal /\ UNCHANGED <<histVars, schedVars, auxVars, moreVars>>
    \/ (\E t \in stasks : SigStopKill(t)) /\ UNCHANGED <<histVars, schedVars, auxVars, moreVars>>
    \/ (\E t \in stasks : SigStopSweep(t)) /\ UNCHANGED <<histVars, schedVars, auxVars, moreVars>>
    \/ SigClearEnd /\ UNCHANGED <<histVars, schedVars, auxVars, moreVars>>
    \/ (\E w \in OtherWatchers : OtherTaskError(w)) /\ UNCHANGED <<histVars, schedVars, auxVars, moreVars>>
    \/ CancelDeliver /\ UNCHANGED <<histVars, schedVars, auxVars, moreVars>>
    \/ WatcherCancelled /\ UNCHANGED <<histVars, schedVars, auxVars, moreVars>>
    \/ RunEnd /\ UNCHANGED <<histVars, schedVars, auxVars, moreVars>>

OrchSpec == OrchInit /\ [][OrchNext]_vars

(***************************************************************************)
(* server/dev.py: DatabuttonFilter and create_components_watcher; what one *)
(* generate_components writes (utils/build.py, helpers/parse.py).          *)
(***************************************************************************)
MaxGens == 3

DockerfilePath == <<".databutton", "docker", "Dockerfile">>
KustomizePath == <<".databutton", "kubernetes", "kustomization.yaml">>
AppFilePath == <<".databutton", "app", "tmp-app.py">>
PkgAppPath == <<"pkg", "app.py">>
InitPath == <<"pkg", "__init__.py">>
PycPath == <<"pkg", "__pycache__", "app.cpython.pyc">>

\* The files the user edits, and every path of the project directory.
UserPaths == { SourcePath, PkgAppPath, InitPath, OtherArtifactsPath }

ProjectPaths ==
    UserPaths \cup { ManifestPath, DockerfilePath, KustomizePath, AppFilePath,
                     PycPath, CompiledPath }

\* The end of a file name after its last dot.
Extension(name) ==
    CASE name \in {"app.py", "__init__.py", "tmp-app.py"} -> ".py"
      [] name \in {"app.pyc", "app.cpython.pyc"} -> ".pyc"
      [] name = "artifacts.json" -> ".json"
      [] name = "kustomization.yaml" -> ".yaml"
      [] OTHER -> ""

\* DatabuttonFilter.ignore_dirs: those of watchfiles.DefaultFilter and
\* ".databutton".
ignore_dirs ==
    { "__pycache__", ".git", ".hg", ".svn", ".tox", ".venv", "site-packages",
      ".idea", "node_modules", ".mypy_cache", ".pytest_cache", ".hypothesis",
      ".databutton" }

\* super().__call__: no component of the path is an ignored directory and
\* the name is not a compiled file.
SuperCall(path) ==
    /\ \A i \in 1..Len(path) : path[i] \notin ignore_dirs
    /\ Extension(path[Len(path)]) \notin {".pyc", ".pyo", ".pyd"}

\* DatabuttonFilter.__call__
DatabuttonFilter(path, include_artifacts_json) ==
    LET res == /\ Extension(path[Len(path)]) \in {".py", ".pyx", ".pyd", ".pyc"}
               /\ SuperCall(path)
               /\ ~EndsWithArtifactsJson(path)
    IN  IF include_artifacts_json THEN res \/ EndsWithArtifactsJson(path) ELSE res

\* The files one generate_components writes besides the manifest: the
\* Dockerfile and the kubernetes files; importing a decorated module writes
\* its app file and its compiled file; find_databutton_directive_modules
\* creates __init__.py in a subdirectory that holds a decorated file and has
\* none.
GenerateWrites(tree) ==
    { DockerfilePath, KustomizePath }
        \cup (IF tree \cap {SourcePath, PkgAppPath} # {} THEN {AppFilePath} ELSE {})
        \cup (IF PkgAppPath \in tree THEN {PycPath} ELSE {})
        \cup (IF PkgAppPath \in tree /\ InitPath \notin tree THEN {InitPath} ELSE {})

\* The user saves a file.
UserEdit(path) ==
    /\ path \in UserPaths
    /\ srcTree' = srcTree \cup {path}
    /\ srcEvents' = srcEvents \cup {[path |-> path, by |-> "user"]}
    /\ UNCHANGED <<regens, trigger>>

\* The user deletes a file.
UserDelete(path) ==
    /\ path \in UserPaths \cap srcTree
    /\ srcTree' = srcTree \ {path}
    /\ srcEvents' = srcEvents \cup {[path |-> path, by |-> "user"]}
    /\ UNCHANGED <<regens, trigger>>

\* awatch hands a change to the source filter, which drops it.
SourceDrop(e) ==
    /\ e \in srcEvents
    /\ ~DatabuttonFilter(e.path, FALSE)
    /\ srcEvents' = srcEvents \ {e}
    /\ UNCHANGED <<srcTree, regens, trigger>>

\* The source filter accepts a change: arun_process runs generate_components.
\* write_artifacts_json writes the manifest when it differs.
SourceRegenerate(e) ==
    /\ e \in srcEvents
    /\ DatabuttonFilter(e.path, FALSE)
    /\ regens < MaxGens
    /\ \E manifest \in SUBSET {ManifestPath} :
          LET writes == GenerateWrites(srcTree) \cup manifest
          IN  /\ srcTree' = srcTree \cup writes
              /\ srcEvents' = (srcEvents \ {e})
                                \cup { [path |-> w, by |-> "generate"] : w \in writes }
    /\ regens' = regens + 1
    /\ trigger' = e.by

\* DatabuttonRunner.run has run generate_components once before the
\* watcher starts.
SourceInit ==
    /\ \E user \in SUBSET UserPaths :
          srcTree = user \cup GenerateWrites(user) \cup {ManifestPath}
    /\ srcEvents = {}
    /\ regens = 0
    /\ trigger = "none"
    /\ SupInit /\ FileIdle /\ HistIdle /\ RunIdle /\ SchedIdle /\ OrchIdle /\ PxIdle /\ MoreIdle

SourceNext ==
    \/ (\E path \in UserPaths : UserEdit(path)) /\ UNCHANGED <<supVars, fileVars, histVars, runVars, schedVars, orchVars, pxVars, moreVars>>
    \/ (\E path \in UserPaths : UserDelete(path)) /\ UNCHANGED <<supVars, fileVars, histVars, runVars, schedVars, orchVars, pxVars, moreVars>>
    \/ (\E e \in srcEvents : SourceDrop(e)) /\ UNCHANGED <<supVars, fileVars, histVars, runVars, schedVars, orchVars, pxVars, moreVars>>
    \/ (\E e \in srcEvents : SourceRegenerate(e)) /\ UNCHANGED <<supVars, fileVars, histVars, runVars, schedVars, orchVars, pxVars, moreVars>>

SourceSpec == SourceInit /\ [][SourceNext]_vars

(***************************************************************************)
(* decorators/apps/streamlit.py: create_streamlit_router, _reverse_proxy   *)
(***************************************************************************)
\* The routers of two apps; a route is cleaned_route, so it ends with "/".
ProxyApps ==
    { [route |-> <<"/", "a", "/">>, port |-> BasePort],
      [route |-> <<"/", "b", "/">>, port |-> BasePort + 1] }

\* methods=[...] of the route, and a method the route does not take.
ProxyMethods == { "GET", "POST", "PATCH", "PUT" }

Methods == ProxyMethods \cup { "DELETE" }

\* What follows the route in a request path: relative paths.
Rests == { <<>>, <<"foo">>, <<"foo", "/", "bar">> }

Queries == { "", "x=1" }

HeaderLists == { <<>>, << <<"cookie", "c">> >> }

Bodies == { "", "data" }

Statuses == { 200, 404, 500 }

Requests ==
    { [method |-> m, path |-> app.route \o rest, query |-> q, headers |-> h, body |-> b] :
        m \in Methods, app \in ProxyApps, rest \in Rests, q \in Queries,
        h \in HeaderLists, b \in Bodies }

IsPrefix(p, q) == Len(p) <= Len(q) /\ SubSeq(q, 1, Len(p)) = p

\* The router whose route app.route + "{rest:path}" matches the path, and
\* the rest it binds.
RouterOf(path) == CHOOSE app \in ProxyApps : IsPrefix(app.route, path)

RestOf(app, path) == SubSeq(path, Len(app.route) + 1, Len(path))

\* str.encode("utf-8") and the bytes' decoding.
encode(text) == <<"utf-8", text>>

decode(bytes) == bytes[2]

\* A variant that leaves the query out of the upstream URL.
URLNoQuery(path, query) == [path |-> path, query |-> encode("")]

\* httpx.URL(path=rest, query=...)
URL(path, query) == [path |-> path, query |-> query]

\* AsyncClient(base_url=f"http://localhost:{app.port}/")
AsyncClient(port) == [host |-> "localhost", port |-> port, path |-> <<"/">>]

\* client.build_request: the relative url is joined to the client's base.
build_request(client, method, url, headers, content) ==
    [host |-> client.host, port |-> client.port, method |-> method,
     path |-> client.path \o url.path, query |-> url.query,
     headers |-> headers, content |-> content]

\* StreamingResponse(..., status_code=r.status_code, ...)
StreamingResponse(r) == [status_code |-> r, upstream |-> r]

\* The router receives a request.
ProxyReceive(request) ==
    /\ pxReq = NoRequest
    /\ pxReq' = request
    /\ UNCHANGED <<pxSent, pxResp>>

\* _reverse_proxy: one upstream request is built and sent, and the upstream's
\* response is streamed back.
reverse_proxy ==
    /\ pxReq # NoRequest /\ pxResp = NoResponse
    /\ pxReq.method \in ProxyMethods
    /\ LET app == RouterOf(pxReq.path)
           rest == RestOf(app, pxReq.path)
           url == URL(rest, encode(pxReq.query))
           client == AsyncClient(app.port)
           req == build_request(client, pxReq.method, url, pxReq.headers, pxReq.body)
       IN  /\ pxSent' = Append(pxSent, req)
           /\ \E r \in Statuses : pxResp' = StreamingResponse(r)
    /\ UNCHANGED pxReq

\* The route does not take the method: the framework answers, nothing is
\* proxied.
MethodNotAllowed ==
    /\ pxReq # NoRequest /\ pxResp = NoResponse
    /\ pxReq.method \notin ProxyMethods
    /\ pxResp' = [status_code |-> 405, upstream |-> 0]
    /\ UNCHANGED <<pxReq, pxSent>>

ProxyInit ==
    /\ PxIdle
    /\ SupInit /\ FileIdle /\ HistIdle /\ RunIdle /\ SchedIdle /\ OrchIdle /\ SrcIdle /\ MoreIdle

ProxyNext ==
    \/ (\E request \in Requests : ProxyReceive(request)) /\ UNCHANGED <<supVars, fileVars, histVars, runVars, schedVars, orchVars, srcVars, moreVars>>
    \/ reverse_proxy /\ UNCHANGED <<supVars, fileVars, histVars, runVars, schedVars, orchVars, srcVars, moreVars>>
    \/ MethodNotAllowed /\ UNCHANGED <<supVars, fileVars, histVars, runVars, schedVars, orchVars, srcVars, moreVars>>

ProxySpec == ProxyInit /\ [][ProxyNext]_vars

(***************************************************************************)
(* utils/build.py: write_artifacts_json step by step. The generating       *)
(* process (the target of create_components_watcher) writes the manifest   *)
(* while the watchers of the main process read it.                         *)
(***************************************************************************)
ManifestDocs ==
    { ArtifactDict(generate_artifacts_json(reg), sch) :
        reg \in FileRegistries, sch \in ManifestSchedules }

\* What a reader finds in the file: the text parses only when it is whole.
ReadText(f) ==
    IF f.upto = TextLen
      THEN [ok |-> TRUE, doc |-> from_json(to_json(f.doc, 2))]
      ELSE [ok |-> FALSE, doc |-> ArtifactDict(<<>>, <<>>)]

\* open(path, "w"): the file is truncated in place, nothing of the new text
\* is there yet.
OpenTruncate(doc) == FileOf(doc, 0)

\* write_artifacts_json up to open(): nothing is written when the file holds
\* an equal document.
WriteOpen(artifacts) ==
    /\ mwrite = "idle"
    /\ ~ArtifactEq(ReadText(mfile).doc, artifacts)
    /\ mfile' = OpenTruncate(artifacts)
    /\ mwrite' = "open"
    /\ UNCHANGED mseen

\* f.write and the buffer's flushes: more of the text reaches the file.
WriteFlush ==
    /\ mwrite = "open"
    /\ mfile.upto < TextLen - 1
    /\ \E n \in (mfile.upto + 1)..(TextLen - 1) : mfile' = FileOf(mfile.doc, n)
    /\ UNCHANGED <<mwrite, mseen>>

\* The with block ends: the file is closed with the whole text.
WriteClose ==
    /\ mwrite = "open"
    /\ mfile' = FileOf(mfile.doc, TextLen)
    /\ mwrite' = "idle"
    /\ UNCHANGED mseen

\* ComponentsJsonFilter.__call__ -> get_components_hash: the file's bytes
\* are read and hashed.
SeenByHash ==
    /\ mseen' = [by |-> "get_components_hash", upto |-> mfile.upto, doc |-> mfile.doc]
    /\ UNCHANGED <<mfile, mwrite>>

\* create_streamlit_watcher -> read_artifacts_json: the file is read and
\* parsed.
SeenByRead ==
    /\ mseen' = [by |-> "read_artifacts_json", upto |-> mfile.upto, doc |-> mfile.doc]
    /\ UNCHANGED <<mfile, mwrite>>

WriteInit ==
    /\ \E doc \in ManifestDocs : mfile = FileOf(doc, TextLen)
    /\ mwrite = "idle"
    /\ mseen = NoSeen
    /\ SupInit /\ FileIdle /\ HistIdle /\ RunIdle /\ SchedIdle /\ OrchIdle /\ AuxIdle /\ JobIdle /\ NetIdle /\ WebIdle

WriteNext ==
    \/ (\E doc \in ManifestDocs : WriteOpen(doc)) /\ UNCHANGED <<supVars, fileVars, histVars, runVars, schedVars, orchVars, auxVars, jobVars, netVars, webVars>>
    \/ WriteFlush /\ UNCHANGED <<supVars, fileVars, histVars, runVars, schedVars, orchVars, auxVars, jobVars, netVars, webVars>>
    \/ WriteClose /\ UNCHANGED <<supVars, fileVars, histVars, runVars, schedVars, orchVars, auxVars, jobVars, netVars, webVars>>
    \/ SeenByHash /\ UNCHANGED <<supVars, fileVars, histVars, runVars, schedVars, orchVars, auxVars, jobVars, netVars, webVars>>
    \/ SeenByRead /\ UNCHANGED <<supVars, fileVars, histVars, runVars, schedVars, orchVars, auxVars, jobVars, netVars, webVars>>

WriteSpec == WriteInit /\ [][WriteNext]_vars

(***************************************************************************)
(* decorators/jobs/logger.py with Job.run: the runs of one run_pending's   *)
(* task group, the logger each of them installs as sys.stdout, and the     *)
(* operations the remote sink is sent.  The body of a coroutine job gives  *)
(* way to the other runs at its awaits; the body of a plain function holds *)
(* the event loop from the logger's __enter__ to its __exit__.             *)
(***************************************************************************)
Releases == {"", "r1"}

\* A variant that never takes the process for a local one.
never_local(release) == FALSE

\* utils/__init__.py: no DATABUTTON_RELEASE in the environment.
is_running_locally(release) == release = ""

\* A variant of the sink's functions without their try/except.
sink_raises(fails) == IF fails THEN "raised" ELSE "ok"

\* create_job_run, update_job_run, push_job_log: a failed request or a
\* response that is not ok is logged, and None is returned.
sink_call(fails) == IF fails THEN "logged" ELSE "ok"

\* A variant of Job.run whose except clause catches nothing.
catches_nothing(exc) == FALSE

\* Job.run's "except Exception": SystemExit, KeyboardInterrupt and a
\* cancellation are BaseExceptions and pass.
except_Exception(exc) == exc = "Exception"

\* One request to the sink for a run_id.
SinkSend(sink, r, operation) == [sink EXCEPT ![r] = Append(@, operation)]

\* JobRunLogger.write of the logger that is sys.stdout; the console has no
\* run_id and sends nothing.
write(sink, target, release) ==
    IF target = Console \/ is_running_locally(release) THEN sink
    ELSE SinkSend(sink, target, "append")

\* No plain-function body of another run holds the event loop.
CanStep(r) == \A q \in RunIds \ {r} : ~(jruns[q].pc = "body" /\ ~jruns[q].async)

Unused == { r \in RunIds : jruns[r].pc = "unused" }

\* How many times run_pending has started a task group.
Ticks == IF \A r \in RunIds : jruns[r].tick = 0 THEN 0
         ELSE CHOOSE n \in 1..MaxRunIds :
                 /\ \E r \in RunIds : jruns[r].tick = n
                 /\ \A r \in RunIds : jruns[r].tick <= n

\* run_pending: tg.start_soon(job.run) for each runnable job; the run_ids
\* are numbered in the order of the calls.
TickBegin ==
    /\ jtick = "idle" /\ jerr = "none"
    /\ \E n \in 1..Cardinality(Unused) :
          LET first == MaxRunIds - Cardinality(Unused) + 1
              S == first..(first + n - 1)
          IN  \E coroutine \in [S -> BOOLEAN] :
                 jruns' = [r \in RunIds |->
                             IF r \in S THEN [NoRun EXCEPT !.pc = "new", !.async = coroutine[r],
                                                            !.tick = Ticks + 1]
                             ELSE jruns[r]]
    /\ jtick' = "running"
    /\ jbefore' = jstdout
    /\ UNCHANGED <<jrelease, jstdout, jsink, jlines, jerr, jfailed>>

\* with JobRunLogger(...) as jobrun: redirect_stdout's __enter__ keeps the
\* sys.stdout it finds and installs the logger; create_job_run when deployed.
\* The trio backend runs the started tasks in an order of its own.
RunEnter(r, fails) ==
    /\ jruns[r].pc = "new" /\ jerr = "none"
    /\ CanStep(r)
    /\ fails => ~is_running_locally(jrelease)
    /\ jstdout' = r
    /\ LET local == is_running_locally(jrelease)
           res == IF local THEN "ok" ELSE sink_call(fails)
       IN  /\ jsink' = IF local THEN jsink ELSE SinkSend(jsink, r, "create")
           /\ jfailed' = (jfailed \/ fails)
           /\ IF res = "raised"
                THEN /\ jruns' = [jruns EXCEPT ![r].pc = "escaped", ![r].saved = jstdout]
                     /\ jerr' = "raised"
                ELSE /\ jruns' = [jruns EXCEPT ![r].pc = "body", ![r].saved = jstdout,
                                               ![r].exc = "running"]
                     /\ UNCHANGED jerr
    /\ UNCHANGED <<jrelease, jlines, jtick, jbefore>>

\* The body prints a line: print writes to whatever sys.stdout is now.
\* write wraps push_job_log in a try/except of its own.
BodyPrint(r, fails) ==
    /\ jruns[r].pc = "body" /\ jruns[r].prints < MaxPrints
    /\ jerr = "none"
    /\ CanStep(r)
    /\ fails => (jstdout # Console /\ ~is_running_locally(jrelease))
    /\ jruns' = [jruns EXCEPT ![r].prints = @ + 1]
    /\ jlines' = jlines \cup {[by |-> r, to |-> jstdout]}
    /\ jsink' = write(jsink, jstdout, jrelease)
    /\ jfailed' = (jfailed \/ fails)
    /\ UNCHANGED <<jrelease, jstdout, jtick, jbefore, jerr>>

\* The body ends and Job.run goes on to its end without an await: the
\* except branch prints the traceback, the job is rescheduled, and
\* __exit__ sends update_job_run when deployed and puts back the sys.stdout
\* that __enter__ kept.  An exception the except clause does not catch
\* leaves Job.run through __exit__.  Once an exception has left a run, the
\* task group cancels the bodies that are waiting.
RunFinish(r, exc, fails) ==
    /\ jruns[r].pc = "body"
    /\ CanStep(r)
    /\ exc \in (IF jerr = "raised" THEN {"Cancelled"}
                ELSE {"returned", "Exception", "BaseException"})
    /\ jerr = "raised" => jruns[r].async
    /\ fails => ~is_running_locally(jrelease)
    /\ LET local == is_running_locally(jrelease)
           caught == exc # "returned" /\ except_Exception(exc)
           escapes == exc # "returned" /\ ~except_Exception(exc)
           printed == IF caught THEN write(jsink, jstdout, jrelease) ELSE jsink
           res == IF local THEN "ok" ELSE sink_call(fails)
       IN  /\ jsink' = IF local THEN printed ELSE SinkSend(printed, r, "finalize")
           /\ jstdout' = IF res = "raised" THEN jstdout ELSE jruns[r].saved
           /\ jruns' = [jruns EXCEPT
                           ![r].pc = IF escapes \/ res = "raised" THEN "escaped" ELSE "done",
                           ![r].exc = exc,
                           ![r].success = jobrun_success(exc # "returned"),
                           ![r].resched = ~escapes]
           /\ jerr' = IF escapes \/ res = "raised" THEN "raised" ELSE jerr
    /\ jfailed' = (jfailed \/ fails)
    /\ UNCHANGED <<jrelease, jlines, jtick, jbefore>>

\* The task group is done and run_pending returns to the loop.
TickEnd ==
    /\ jtick = "running" /\ jerr = "none"
    /\ \A r \in RunIds : jruns[r].pc \notin {"new", "body"}
    /\ jtick' = "idle"
    /\ UNCHANGED <<jrelease, jruns, jstdout, jsink, jlines, jbefore, jerr, jfailed>>

\* The task group is done with an exception: run_pending raises it into
\* run_continously, which ends.
TickRaise ==
    /\ jtick = "running" /\ jerr = "raised"
    /\ \A r \in RunIds : jruns[r].pc # "body"
    /\ jtick' = "stopped"
    /\ UNCHANGED <<jrelease, jruns, jstdout, jsink, jlines, jbefore, jerr, jfailed>>

JobInit ==
    /\ jrelease \in Releases
    /\ jruns = [r \in RunIds |-> NoRun]
    /\ jstdout = Console
    /\ jsink = [r \in RunIds |-> <<>>]
    /\ jlines = {}
    /\ jtick = "idle"
    /\ jbefore = Console
    /\ jerr = "none"
    /\ jfailed = FALSE
    /\ SupInit /\ FileIdle /\ HistIdle /\ RunIdle /\ SchedIdle /\ OrchIdle /\ AuxIdle /\ WrIdle /\ NetIdle /\ WebIdle

JobNext ==
    \/ TickBegin /\ UNCHANGED <<supVars, fileVars, histVars, runVars, schedVars, orchVars, auxVars, wrVars, netVars, webVars>>
    \/ (\E r \in RunIds, fails \in BOOLEAN : RunEnter(r, fails))
          /\ UNCHANGED <<supVars, fileVars, histVars, runVars, schedVars, orchVars, auxVars, wrVars, netVars, webVars>>
    \/ (\E r \in RunIds, fails \in BOOLEAN : BodyPrint(r, fails))
          /\ UNCHANGED <<supVars, fileVars, histVars, runVars, schedVars, orchVars, auxVars, wrVars, netVars, webVars>>
    \/ (\E r \in RunIds, exc \in {"returned", "Exception", "BaseException", "Cancelled"},
           fails \in BOOLEAN : RunFinish(r, exc, fails))
          /\ UNCHANGED <<supVars, fileVars, histVars, runVars, schedVars, orchVars, auxVars, wrVars, netVars, webVars>>
    \/ TickEnd /\ UNCHANGED <<supVars, fileVars, histVars, runVars, schedVars, orchVars, auxVars, wrVars, netVars, webVars>>
    \/ TickRaise /\ UNCHANGED <<supVars, fileVars, histVars, runVars, schedVars, orchVars, auxVars, wrVars, netVars, webVars>>

JobSpec == JobInit /\ [][JobNext]_vars

(***************************************************************************)
(* decorators/apps/streamlit.py: the two routes create_streamlit_router    *)
(* gives an app, _reverse_proxy for HTTP and handle_proxied_websocket with *)
(* its forward and reverse loops for the stream.  One request and one      *)
(* connection per app are followed; the worker, the client and the server  *)
(* framework around the handlers are the environment.                      *)
(***************************************************************************)
\* A variant of leaving "async with connect(...)" that keeps the outbound
\* connection open.
connect_exit_open(outbound) == outbound

\* Leaving "async with connect(...) as ws_server" closes the connection.
connect_exit(outbound) == "closed"

\* The app's worker exits: it stops listening and its connections close.
WorkerExit(app) ==
    /\ nready[app]
    /\ nready' = [nready EXCEPT ![app] = FALSE]
    /\ nws' = [nws EXCEPT ![app].outbound = IF @ = "open" THEN "closed" ELSE @]
    /\ UNCHANGED nhttp

\* The router receives an HTTP request for the app's route.
RouteReceive(app) ==
    /\ nhttp[app].st = "none"
    /\ nhttp' = [nhttp EXCEPT ![app].st = "received"]
    /\ UNCHANGED <<nready, nws>>

\* _reverse_proxy up to client.send: no test of the worker comes before it.
\* With nothing listening on the port the send raises out of the handler,
\* and the server answers the request with its internal-error response.
RouteSend(app) ==
    /\ nhttp[app].st = "received"
    /\ nhttp' = [nhttp EXCEPT ![app] =
                    IF nready[app]
                      THEN [@ EXCEPT !.st = "streaming", !.status = "200", !.ready = TRUE]
                      ELSE [@ EXCEPT !.st = "done", !.status = "500", !.raised = TRUE]]
    /\ UNCHANGED <<nready, nws>>

\* StreamingResponse(r.aiter_raw(), ...): the body is passed on to its end,
\* or the transport fails on the way and the response is cut.
RouteStream(app, ok) ==
    /\ nhttp[app].st = "streaming"
    /\ nhttp' = [nhttp EXCEPT ![app].st = "done", ![app].aborted = ~ok]
    /\ UNCHANGED <<nready, nws>>

\* handle_proxied_websocket: await ws_client.accept()
WsAccept(app) ==
    /\ nws[app].st = "none"
    /\ nws' = [nws EXCEPT ![app].st = "accepted", ![app].inbound = "open"]
    /\ UNCHANGED <<nready, nhttp>>

\* port = app.port is an int, never None; connect(...) either opens the
\* outbound connection and the two loops start, or raises, which the
\* handler's except clause swallows: the handler returns with the inbound
\* connection accepted and nothing sent on it.
WsConnect(app) ==
    /\ nws[app].st = "accepted"
    /\ nws' = [nws EXCEPT ![app] =
                  IF nready[app]
                    THEN [@ EXCEPT !.st = "connected", !.ready = TRUE, !.outbound = "open",
                                   !.fwd = "running", !.rev = "running"]
                    ELSE [@ EXCEPT !.st = "returned", !.result = "closed"]]
    /\ UNCHANGED <<nready, nhttp>>

\* The client closes the inbound connection while the handler runs.
InboundClose(app) ==
    /\ nws[app].inbound = "open" /\ nws[app].st # "returned"
    /\ nws' = [nws EXCEPT ![app].inbound = "closed"]
    /\ UNCHANGED <<nready, nhttp>>

\* forward: receive_bytes raises once the inbound connection is closed.
ForwardClosed(app) ==
    /\ nws[app].fwd = "running" /\ nws[app].inbound = "closed"
    /\ nws' = [nws EXCEPT ![app].fwd = "ended"]
    /\ UNCHANGED <<nready, nhttp>>

\* forward: a message of the client comes and ws_server.send raises on the
\* closed outbound connection.
ForwardSendFails(app) ==
    /\ nws[app].fwd = "running" /\ nws[app].inbound = "open" /\ nws[app].outbound = "closed"
    /\ nws' = [nws EXCEPT ![app].fwd = "ended"]
    /\ UNCHANGED <<nready, nhttp>>

\* reverse: recv raises once the outbound connection is closed.
ReverseClosed(app) ==
    /\ nws[app].rev = "running" /\ nws[app].outbound = "closed"
    /\ nws' = [nws EXCEPT ![app].rev = "ended"]
    /\ UNCHANGED <<nready, nhttp>>

\* reverse: a message of the worker comes and ws_client.send_text raises on
\* the closed inbound connection.
ReverseSendFails(app) ==
    /\ nws[app].rev = "running" /\ nws[app].outbound = "open" /\ nws[app].inbound = "closed"
    /\ nws' = [nws EXCEPT ![app].rev = "ended"]
    /\ UNCHANGED <<nready, nhttp>>

\* await asyncio.gather(fwd_task, rev_task): the first loop's exception
\* comes out of gather, which leaves the other task running; the handler
\* leaves the "async with" and its except clause, and returns.
Gather(app) ==
    /\ nws[app].st = "connected"
    /\ nws[app].fwd = "ended" \/ nws[app].rev = "ended"
    /\ nws' = [nws EXCEPT ![app].st = "returned", ![app].result = "closed",
                          ![app].outbound = connect_exit(@)]
    /\ UNCHANGED <<nready, nhttp>>

\* The handler has returned: the server closes the inbound connection.
EndpointReturned(app) ==
    /\ nws[app].st = "returned" /\ nws[app].inbound = "open"
    /\ nws' = [nws EXCEPT ![app].inbound = "closed"]
    /\ UNCHANGED <<nready, nhttp>>

RouteInit ==
    /\ nready \in [NetApps -> BOOLEAN]
    /\ nhttp = [app \in NetApps |-> NoHttp]
    /\ nws = [app \in NetApps |-> NoWs]
    /\ SupInit /\ FileIdle /\ HistIdle /\ RunIdle /\ SchedIdle /\ OrchIdle /\ AuxIdle /\ WrIdle /\ JobIdle /\ WebIdle

RouteNext ==
    \/ (\E app \in NetApps : WorkerExit(app))
          /\ UNCHANGED <<supVars, fileVars, histVars, runVars, schedVars, orchVars, auxVars, wrVars, jobVars, webVars>>
    \/ (\E app \in NetApps : RouteReceive(app))
          /\ UNCHANGED <<supVars, fileVars, histVars, runVars, schedVars, orchVars, auxVars, wrVars, jobVars, webVars>>
    \/ (\E app \in NetApps : RouteSend(app))
          /\ UNCHANGED <<supVars, fileVars, histVars, runVars, schedVars, orchVars, auxVars, wrVars, jobVars, webVars>>
    \/ (\E app \in NetApps, ok \in BOOLEAN : RouteStream(app, ok))
          /\ UNCHANGED <<supVars, fileVars, histVars, runVars, schedVars, orchVars, auxVars, wrVars, jobVars, webVars>>
    \/ (\E app \in NetApps : WsAccept(app))
          /\ UNCHANGED <<supVars, fileVars, histVars, runVars, schedVars, orchVars, auxVars, wrVars, jobVars, webVars>>
    \/ (\E app \in NetApps : WsConnect(app))
          /\ UNCHANGED <<supVars, fileVars, histVars, runVars, schedVars, orchVars, auxVars, wrVars, jobVars, webVars>>
    \/ (\E app \in NetApps : InboundClose(app))
          /\ UNCHANGED <<supVars, fileVars, histVars, runVars, schedVars, orchVars, auxVars, wrVars, jobVars, webVars>>
    \/ (\E app \in NetApps : ForwardClosed(app))
          /\ UNCHANGED <<supVars, fileVars, histVars, runVars, schedVars, orchVars, auxVars, wrVars, jobVars, webVars>>
    \/ (\E app \in NetApps : ForwardSendFails(app))
          /\ UNCHANGED <<supVars, fileVars, histVars, runVars, schedVars, orchVars, auxVars, wrVars, jobVars, webVars>>
    \/ (\E app \in NetApps : ReverseClosed(app))
          /\ UNCHANGED <<supVars, fileVars, histVars, runVars, schedVars, orchVars, auxVars, wrVars, jobVars, webVars>>
    \/ (\E app \in NetApps : ReverseSendFails(app))
          /\ UNCHANGED <<supVars, fileVars, histVars, runVars, schedVars, orchVars, auxVars, wrVars, jobVars, webVars>>
    \/ (\E app \in NetApps : Gather(app))
          /\ UNCHANGED <<supVars, fileVars, histVars, runVars, schedVars, orchVars, auxVars, wrVars, jobVars, webVars>>
    \/ (\E app \in NetApps : EndpointReturned(app))
          /\ UNCHANGED <<supVars, fileVars, histVars, runVars, schedVars, orchVars, auxVars, wrVars, jobVars, webVars>>

RouteSpec == RouteInit /\ [][RouteNext]_vars

\* The loops, the handler and the server take their turn; the client, the
\* worker and their messages owe nothing.
NotNet == <<supVars, fileVars, histVars, runVars, schedVars, orchVars, auxVars, wrVars, jobVars, webVars>>

FairRouteSpec ==
    /\ RouteSpec
    /\ \A app \in NetApps :
          /\ WF_vars(ForwardClosed(app) /\ UNCHANGED NotNet)
          /\ WF_vars(ReverseClosed(app) /\ UNCHANGED NotNet)
          /\ WF_vars(Gather(app) /\ UNCHANGED NotNet)
          /\ WF_vars(EndpointReturned(app) /\ UNCHANGED NotNet)

(***************************************************************************)
(* Spec: a StreamlitWatcher driven by any sequence of reconciliations and  *)
(* clears, one call at a time.                                             *)
(***************************************************************************)
Init == SupInit /\ FileIdle /\ HistIdle /\ RunIdle /\ SchedIdle /\ ExtIdle

Next ==
    \/ (\E d \in Manifests : UpdateBegin(d)) /\ UNCHANGED <<fileVars, histVars, runVars, schedVars, extVars>>
    \/ TaskStep /\ UNCHANGED <<fileVars, histVars, runVars, schedVars, extVars>>
    \/ UpdateEnd /\ UNCHANGED <<fileVars, histVars, runVars, schedVars, extVars>>
    \/ ClearBegin /\ UNCHANGED <<fileVars, histVars, runVars, schedVars, extVars>>
    \/ ClearEnd /\ UNCHANGED <<fileVars, histVars, runVars, schedVars, extVars>>

Spec == Init /\ [][Next]_vars

(***************************************************************************)
(* StartSpec: the same calls with the worker's output made explicit. A     *)
(* worker may stay alive having written fewer than the 100 bytes            *)
(* start_process waits for; every task that can take a step is scheduled.  *)
(***************************************************************************)
\* buffered.receive_exactly(100) has no timeout: with a worker that is alive
\* and writes no more, the read waits until the task is cancelled.
StartStall(t) ==
    /\ t \in tasks /\ t.kind = "start" /\ t.pc = "read"
    /\ os[t.proc].alive
    /\ tasks' = (tasks \ {t}) \cup {[t EXCEPT !.pc = "blocked"]}
    /\ UNCHANGED <<apps, processes, os, op, failed, ret, prev, issued, everFailed, error>>

\* A reconciliation is called while the machine can still open every
\* process the call starts.
StartUpdateBegin(desired) ==
    /\ UpdateBegin(desired)
    /\ Len(os) + Cardinality({ t \in tasks' : t.kind = "start" }) <= MaxPid

StartNext ==
    \/ (\E d \in Manifests : StartUpdateBegin(d)) /\ UNCHANGED <<fileVars, histVars, runVars, schedVars, extVars>>
    \/ TaskStep /\ UNCHANGED <<fileVars, histVars, runVars, schedVars, extVars>>
    \/ (\E t \in tasks : StartStall(t)) /\ UNCHANGED <<fileVars, histVars, runVars, schedVars, extVars>>
    \/ UpdateEnd /\ UNCHANGED <<fileVars, histVars, runVars, schedVars, extVars>>
    \/ ClearBegin /\ UNCHANGED <<fileVars, histVars, runVars, schedVars, extVars>>
    \/ ClearEnd /\ UNCHANGED <<fileVars, histVars, runVars, schedVars, extVars>>

StartSpec ==
    /\ Init /\ [][StartNext]_vars
    /\ WF_vars(TaskStep /\ UNCHANGED <<fileVars, histVars, runVars, schedVars, extVars>>)
    /\ WF_vars(UpdateEnd /\ UNCHANGED <<fileVars, histVars, runVars, schedVars, extVars>>)
    /\ WF_vars(ClearEnd /\ UNCHANGED <<fileVars, histVars, runVars, schedVars, extVars>>)

\* The same without the stalled worker: every worker ends its output or
\* writes 100 bytes.
StartSpecNoStall ==
    /\ Init /\ [][StartNext /\ \A t \in tasks' : t.pc # "blocked"]_vars
    /\ WF_vars(TaskStep /\ UNCHANGED <<fileVars, histVars, runVars, schedVars, extVars>>)
    /\ WF_vars(UpdateEnd /\ UNCHANGED <<fileVars, histVars, runVars, schedVars, extVars>>)
    /\ WF_vars(ClearEnd /\ UNCHANGED <<fileVars, histVars, runVars, schedVars, extVars>>)

\* C19: start_process always eventually finishes and the reconciliation is
\* not blocked forever: every call of update_processes_from_apps ends.
C19_StartEventuallyFinishes ==
    (op = "update") ~> (op = "idle")


(***************************************************************************)
(* Properties of the supervisor.                                           *)
(***************************************************************************)
IsAlive(pid) == pid # NoProc /\ os[pid].alive

LiveKeys == { k \in Keys(processes) : IsAlive(processes[k]) }

\* update_processes_from_apps is about to return, no start having failed.
UpdateCompleted == op = "update" /\ tasks = {} /\ ~failed

\* C1: when update_processes_from_apps(desired) completes, no start of this
\* or of an earlier reconciliation having failed, the live entries of the process map are exactly the desired
\* identities and the process map has no entry for any other identity.
C1_RunningSetIsDesired ==
    UpdateCompleted /\ ~everFailed => LiveKeys = Keys(apps) /\ Keys(processes) \subseteq Keys(apps)

\* C2: in update_processes_from_apps, an identity that is in the previous
\* and in the new app map has no start and no stop issued for it, and its
\* entry of the process map stays the handle it was.
C2_UnchangedKeepHandle ==
    op = "update" =>
        \A k \in Keys(prev.apps) \cap Keys(apps) :
            /\ <<"start", k>> \notin issued
            /\ <<"stop", k>> \notin issued
            /\ Get(processes, k, NoProc) = Get(prev.processes, k, NoProc)

\* A reconciliation that has finished its starts and stops for the other
\* identities while one identity was kept, with its handle.
C2_Witness ==
    /\ UpdateCompleted
    /\ issued # {}
    /\ \E k \in Keys(prev.apps) \cap Keys(apps) :
          k \in Keys(processes) /\ processes[k] = prev.processes[k]

LiveWith(filename) == { p \in 1..Len(os) : os[p].alive /\ os[p].filename = filename }

\* C5: at most one live worker process per WorkerApp identity (uid + route;
\* the script path is a function of the uid).
C5_OneLivePerIdentity ==
    \A p \in 1..Len(os) : os[p].alive => Cardinality(LiveWith(os[p].filename)) <= 1

\* C13: no stop_process raises: the exception of a call's task group is never
\* the one stop_process raises for a missing handle.
C13_StopNeverRaises ==
    error # AttributeError

\* C14: a start_process that finds no ready marker fails with
\* CouldNotStartError, which carries the worker's stderr: the exception of a
\* call's task group is never the bare Exception of the marker test.
C14_StartFailureCarriesStderr ==
    error # StartException

\* The identities of the new app map whose uid had another port before.
Reassigned == { k \in Keys(apps) \ Keys(prev.apps) :
                  \E o \in Keys(prev.apps) \ Keys(apps) : o[1] = k[1] }

\* C18: when a reconciliation completes, no start having failed, every app
\* whose port was reassigned has a live process under its new identity.
C18_ReassignedPortRuns ==
    UpdateCompleted /\ ~everFailed =>
        \A k \in Reassigned : k \in Keys(processes) /\ IsAlive(processes[k])

(***************************************************************************)
(* Properties of the file-driven watcher (RunnerSpec).                     *)
(***************************************************************************)
AppOf(route, port) == [uid |-> Uid(route), route |-> route, name |-> "f", port |-> port]

AppA == AppOf(<<"/", "a", "/">>, BasePort)

AppB == AppOf(<<"/", "b", "/">>, BasePort + 1)

KeyA == get_stable_app_id(AppA)

KeyB == get_stable_app_id(AppB)

\* The watcher handles an event that came while A and B ran, no start having
\* failed, and the manifest it read holds A alone, on A's port.
HandlingRemovalOfB ==
    /\ wpc \in {"clear", "cleared", "update", "watch"}
    /\ ~everFailed
    /\ Keys(atEvent.apps) = {KeyA, KeyB}
    /\ atEvent.live = {KeyA, KeyB}
    /\ components.streamlit_apps = <<AppA>>

\* C3: with A ("/a/") and B ("/b/") running, a manifest change that removes
\* only B never stops A's process: the process A had when the event came is
\* alive while and after the watcher handles the event.
C3_RemovingBLeavesA ==
    HandlingRemovalOfB => os[atEvent.processes[KeyA]].alive

\* C15: in the watcher a reconciliation is in progress exactly while the
\* watcher is in its call of update_processes_from_apps, a clear exactly
\* while it is in its call of clear(), and while the watcher waits for an
\* event or has just taken one, no task of an earlier call is left.
C15_NoOverlap ==
    /\ op = "update" <=> wpc \in {"first", "update"}
    /\ op = "clear" <=> wpc = "clear"
    /\ wpc \in {"start", "watch", "event", "cleared", "crashed"} => tasks = {}

\* A change of the manifest waits while the reconciliation for the event
\* before it still has tasks running.
C15_Witness ==
    /\ wpc = "update"
    /\ tasks # {}
    /\ ManifestPath \in raw
    /\ get_components_hash(disk) # prev_hash

(***************************************************************************)
(* Properties of DatabuttonRunner.run's task group (OrchSpec)              *)
(***************************************************************************)
\* C12: on an interrupt signal every worker process is stopped first and only
\* then is the shared scope cancelled: once the signal handler has cancelled
\* the scope, no worker process is alive.
C12_StoppedBeforeCancel ==
    culprit = "signal" => \A p \in DOMAIN os : ~os[p].alive

\* C16: a failure inside one unit of work of the worker-process watcher (a
\* StartFailure of one app) is contained: the watcher task does not end with
\* it, so it still handles the next manifest event, and the web, schedule and
\* components watchers are not cancelled because of it.
C16_FailureContained ==
    /\ wpc # "crashed"
    /\ culprit = "streamlit" => \A w \in OtherWatchers : wt[w] # "cancelled"

\* The watcher tasks that ended with an error they did not handle.
FailedWatchers ==
    { w \in OtherWatchers : wt[w] = "failed" }
        \cup (IF wpc = "crashed" THEN {"streamlit"} ELSE {})

\* The watcher tasks that ended by cancellation.
CancelledWatchers ==
    { w \in OtherWatchers : wt[w] = "cancelled" }
        \cup (IF wpc = "cancelled" THEN {"streamlit"} ELSE {})

C20_NoSelfTrigger ==
    /\ \A path \in ProjectPaths :
          path[1] = ".databutton" \/ path = ManifestPath => ~DatabuttonFilter(path, FALSE)
    /\ trigger # "generate"

(***************************************************************************)
(* Properties of the reverse proxy (ProxySpec)                             *)
(***************************************************************************)
\* C11: for every proxied request to <route><rest>?<query> exactly one
\* upstream request is sent, to the worker's port, with path /<rest>, the
\* same query, method, headers and body, and the response returned to the
\* client carries the upstream's status code.
C11_ProxyForwards ==
    pxResp # NoResponse /\ pxReq.method \in ProxyMethods =>
        LET app == RouterOf(pxReq.path)
        IN  /\ Len(pxSent) = 1
            /\ pxSent[1].host = "localhost"
            /\ pxSent[1].port = app.port
            /\ pxSent[1].path = <<"/">> \o RestOf(app, pxReq.path)
            /\ decode(pxSent[1].query) = pxReq.query
            /\ pxSent[1].method = pxReq.method
            /\ pxSent[1].headers = pxReq.headers
            /\ pxSent[1].content = pxReq.body
            /\ pxResp.status_code = pxResp.upstream

C11_Witness ==
    /\ pxReq.method = "POST"
    /\ pxReq.path = <<"/", "b", "/", "foo">>
    /\ pxReq.query = "x=1"
    /\ pxReq.body = "data"
    /\ pxReq.headers # <<>>
    /\ Len(pxSent) = 1
    /\ pxSent[1].path = <<"/", "foo">>
    /\ pxSent[1].port = BasePort + 1
    /\ pxResp.status_code = 404

(***************************************************************************)
(* Properties of the manifest's writing (WriteSpec)                        *)
(***************************************************************************)
\* C21: the manifest is replaced atomically: whenever a watcher reads the
\* file (read_artifacts_json or get_components_hash) it finds a whole
\* manifest, the old or the new one, never an empty or partly written file.
C21_ReadsWholeManifest ==
    mseen.by # "none" => mseen.upto = TextLen

(***************************************************************************)
(* Properties of the manifest's generation (BuildSpec).                    *)
(***************************************************************************)
Orderings(n) ==
    { f \in [1..n -> 1..n] : \A i, j \in 1..n : f[i] = f[j] => i = j }

Reordered(reg, f) == [i \in 1..Len(reg) |-> reg[f[i]]]

RoutePorts(streamlit_apps) ==
    { <<streamlit_apps[i].route, streamlit_apps[i].port>> : i \in 1..Len(streamlit_apps) }

C9_EventOnlyOnNewHash ==
    [][emits' # emits => get_components_hash(disk) # lastEvent]_vars

\* After an event, the manifest was written again with the same bytes and
\* the filter held the change back.
C9_Witness ==
    /\ emits
    /\ lastFilter = "same"
    /\ get_components_hash(disk) = lastEvent

(***************************************************************************)
(* Properties of the scheduler (SchedSpec).                                *)
(***************************************************************************)
\* C6: a job whose body raised with cancel_on_failure set is in no later
\* run_pending's task group.
C6_FailedJobNotSelected ==
    \A t \in runq : cancelled[t.job] # "failure"

\* C7: a job whose run found it overdue is in no later run_pending's task
\* group.
C7_OverdueJobNotSelected ==
    \A t \in runq : cancelled[t.job] # "overdue"

EveryFiveNow(j) == jobs[j].sched.seconds = 5 /\ jobs[j].sched.run_immediately

Running(j) == \E t \in runq : t.job = j /\ t.pc = "body"

AtStart(j) == \E t \in runq : t.job = j /\ t.pc = "start"

\* The parts of C22 about the first run and about dispatch: a job without
\* run_immediately never starts before one interval after the load at 0, and
\* a job that run_pending has just started is due, or is forced by the first
\* run_pending.
NotBeforeDue(j) ==
    /\ ~jobs[j].sched.run_immediately /\ lastStart[j] # NoTime
          => lastStart[j] >= jobs[j].sched.seconds
    /\ AtStart(j) /\ spc = "running" => now >= jobs[j].next_run
    /\ AtStart(j) /\ spc = "running_first"
          => jobs[j].sched.run_immediately \/ now >= jobs[j].next_run

JustDispatched ==
    /\ spc \in {"running_first", "running"}
    /\ Len(dispatched) = Cardinality(runq)
    /\ \A t \in runq : t.pc = "start"

Dispatched == { dispatched[k] : k \in 1..Len(dispatched) }

DueJobs == { j \in 1..Len(jobs) : now >= jobs[j].next_run }

\* C23: the first run_pending starts every job with run_immediately once,
\* due or not, and no job without run_immediately that is not due; every
\* later run_pending starts exactly the jobs that are due and not cancelled.
C23_ExactDispatch ==
    JustDispatched =>
        /\ \A k, l \in 1..Len(dispatched) : dispatched[k] = dispatched[l] => k = l
        /\ spc = "running_first" =>
              /\ should_run_immediately(jobs) \subseteq Dispatched
              /\ Dispatched \ should_run_immediately(jobs) \subseteq DueJobs
        /\ spc = "running" =>
              Dispatched = { j \in DueJobs : cancelled[j] = "no" }

\* C24: the jobs run_pending has just started are in non-decreasing order of
\* next_run, and jobs with the same next_run are in the order of the job
\* list.
C24_DispatchOrder ==
    JustDispatched =>
        \A k, l \in 1..Len(dispatched) :
            k < l =>
                \/ jobs[dispatched[k]].next_run < jobs[dispatched[l]].next_run
                \/ /\ jobs[dispatched[k]].next_run = jobs[dispatched[l]].next_run
                   /\ dispatched[k] < dispatched[l]

\* Two jobs started by one run_pending, the later of the job list first
\* because its next_run is earlier.
C24_Witness ==
    /\ JustDispatched
    /\ Len(dispatched) = 2
    /\ dispatched[1] > dispatched[2]
    /\ jobs[dispatched[1]].next_run < jobs[dispatched[2]].next_run

\* Two jobs with the same next_run started by one run_pending.
C24_TieWitness ==
    /\ JustDispatched
    /\ Len(dispatched) = 2
    /\ jobs[dispatched[1]].next_run = jobs[dispatched[2]].next_run

\* C25: the success flag of a finished run is True exactly when its body
\* returned; a job whose body raised without cancel_on_failure is not
\* cancelled for the failure, has next_run one interval after the end of the
\* run, and is started by a later run_pending that finds it due.
C25_FailedRunRescheduled ==
    \A j \in 1..Len(jobs) :
        /\ success[j] = "True" <=> outcome[j] = "returned"
        /\ success[j] = "False" <=> outcome[j] = "raised"
        /\ outcome[j] = "raised" /\ ~jobs[j].sched.cancel_on_failure =>
              /\ cancelled[j] # "failure"
              /\ jobs[j].next_run = lastEnd[j] + jobs[j].sched.seconds
              /\ JustDispatched /\ spc = "running" /\ j \in DueJobs => j \in Dispatched

\* A job without cancel_on_failure whose body raised, started again by a
\* later run_pending when due.
C25_Witness ==
    \E j \in 1..Len(jobs) :
        /\ ~jobs[j].sched.cancel_on_failure
        /\ outcome[j] = "raised" /\ success[j] = "False"
        /\ cancelled[j] = "no"
        /\ JustDispatched /\ spc = "running"
        /\ j \in DueJobs /\ j \in Dispatched

(***************************************************************************)
(* Properties of the job runs and their loggers (JobSpec).                 *)
(***************************************************************************)
Ended(r) == jruns[r].pc \in {"done", "escaped"} /\ jruns[r].exc # "none"

SomeBaseException == \E r \in RunIds : jruns[r].exc = "BaseException"

\* C26: a run whose body raised an Exception ends inside Job.run; no run is
\* cancelled, no exception leaves a Job.run and the loop does not stop
\* unless a body ended with something that is not an Exception.
C26_BodyErrorContained ==
    /\ \A r \in RunIds : jruns[r].exc = "Exception" => jruns[r].pc = "done"
    /\ (\E r \in RunIds : jruns[r].exc = "Cancelled") => SomeBaseException
    /\ jerr = "raised" => SomeBaseException
    /\ jtick = "stopped" => SomeBaseException

\* Two runs of the first run_pending, one ended by an Exception and the
\* other returned, and a run of the second run_pending in its body.
C26_Witness ==
    /\ jruns[1].tick = 1 /\ jruns[1].exc = "Exception" /\ jruns[1].pc = "done"
    /\ jruns[2].tick = 1 /\ jruns[2].exc = "returned" /\ jruns[2].pc = "done"
    /\ jruns[3].tick = 2 /\ jruns[3].pc = "body"
    /\ jerr = "none"

\* C27: whatever the sink has been sent for a run_id starts with the one
\* create, nothing follows the one finalize, and an ended run of a deployed
\* process has the finalize as its last operation.
C27_SinkOrder ==
    \A r \in RunIds :
        /\ \A k \in 1..Len(jsink[r]) :
              /\ jsink[r][k] = "create" <=> k = 1
              /\ jsink[r][k] = "finalize" => k = Len(jsink[r])
        /\ jrelease # "" /\ Ended(r) =>
              /\ jsink[r] # <<>>
              /\ jsink[r][Len(jsink[r])] = "finalize"

\* C28: every line a body printed went into the logger of its own run, and
\* between two run_pending calls sys.stdout is what it was before the last
\* one began.
C28_OutputCaptured ==
    /\ \A l \in jlines : l.to = l.by
    /\ jtick = "idle" => jstdout = jbefore

\* C29: a process without DATABUTTON_RELEASE sends the sink nothing.
C29_LocalSendsNothing ==
    jrelease = "" => \A r \in RunIds : jsink[r] = <<>>

\* A local run that printed into its own logger and has ended.
C29_Witness ==
    /\ jrelease = ""
    /\ \E r \in RunIds :
          /\ jruns[r].pc = "done" /\ jruns[r].exc \in {"returned", "Exception"}
          /\ [by |-> r, to |-> r] \in jlines

\* C30: with or without failures of the sink, an ended run has success True
\* exactly when its body returned, the job is rescheduled exactly when the
\* body returned or raised an Exception, and nothing but a body's own
\* BaseException or a cancellation leaves a Job.run.
C30_SinkFailureHarmless ==
    \A r \in RunIds :
        /\ Ended(r) =>
              /\ jruns[r].success = "True" <=> jruns[r].exc = "returned"
              /\ jruns[r].resched <=> jruns[r].exc \in {"returned", "Exception"}
        /\ jruns[r].pc = "escaped" => jruns[r].exc \in {"BaseException", "Cancelled"}
        /\ jruns[r].pc = "done" => jruns[r].exc \in {"returned", "Exception"}

\* The sink has failed, and a run of the deployed process has ended with its
\* body returned and its flag True, no exception having left any run.
C30_Witness ==
    /\ jfailed /\ jrelease # ""
    /\ jerr = "none"
    /\ \E r \in RunIds :
          /\ jruns[r].pc = "done" /\ jruns[r].exc = "returned"
          /\ jruns[r].success = "True" /\ jruns[r].resched
          /\ jsink[r] # <<>>

(***************************************************************************)
(* Properties of the proxied routes (RouteSpec).                           *)
(***************************************************************************)
\* C31: a request or a stream for an app whose worker does not listen ends
\* with a not-found response, and a request whose transport failed has an
\* error of its own.
C31_UnreadyIsNotFound ==
    \A app \in NetApps :
        /\ nhttp[app].st = "done" /\ ~nhttp[app].ready => nhttp[app].status = "404"
        /\ nws[app].st = "returned" /\ ~nws[app].ready => nws[app].result = "404"
        /\ nhttp[app].st = "done" /\ nhttp[app].ready => nhttp[app].status = "200"

\* The loops of a connection have both ended and the outbound connection is
\* closed.
StreamOver(app) ==
    /\ nws[app].fwd = "ended" /\ nws[app].rev = "ended"
    /\ nws[app].outbound = "closed"

SiblingServed ==
    /\ nhttp["a"].raised /\ nws["a"].st = "returned" /\ ~nws["a"].ready
    /\ nhttp["b"].st = "done" /\ nhttp["b"].status = "200"
    /\ nws["b"].st = "connected"

(***************************************************************************)
(* Properties of the interrupt during a reconciliation (OrchSpec).         *)
(***************************************************************************)
\* C33: while an update_processes_from_apps call is in progress, no step of
\* the signal handler changes the apps map or the process map.
C33_OnlyReconciliationWrites ==
    [][op = "update" /\ sig' # sig => apps' = apps /\ processes' = processes]_vars

\* C34: when DatabuttonRunner.run has returned after the interrupt, no
\* worker process the supervisor started is alive.
C34_NoWorkerAfterShutdown ==
    runres = "returned" => \A p \in DOMAIN os : ~os[p].alive

\* C35: no job has two runs in progress, and the loop is at a tick or asleep
\* only when every run of the last run_pending has ended.
C35_NoOverlappingRuns ==
    /\ \A t1, t2 \in runq : t1.job = t2.job => t1 = t2
    /\ spc \in {"tick", "sleep"} => runq = {}

\* A job with an interval of 1 second whose body has been running for 2
\* seconds, while another job is due and waits for the next run_pending.
C35_Witness ==
    \E j, k \in 1..Len(jobs) :
        /\ j # k
        /\ jobs[j].sched.seconds = 1
        /\ Running(j) /\ now - lastStart[j] = MaxDur
        /\ now >= jobs[k].next_run
        /\ \A t \in runq : t.job # k

\* ---- Properties of a repeated reconciliation (Spec) ----

SecondCall == op = "update" /\ apps = prev.apps

\* C36: a call of update_processes_from_apps with the app list of the call
\* before it (no clear() between them) starts no task, so it starts and stops
\* no process, leaves the apps map and the process map as they were and
\* returns False; in every call the value to return is True exactly when an
\* identity was added or an identity was removed.
C36_UpdateIdempotent ==
    /\ SecondCall =>
         /\ issued = {} /\ tasks = {}
         /\ processes = prev.processes
         /\ ret = "False" /\ ~failed
    /\ op = "update" =>
         (ret = "True" <=> Keys(apps) # Keys(prev.apps))

C36_Witness ==
    /\ SecondCall /\ Keys(apps) # {}
    /\ Keys(processes) = Keys(apps)
    /\ \A k \in Keys(processes) : IsAlive(processes[k])

\* ---- Properties of a failed start (Spec) ----

StartErrors == {CouldNotStartError, StartException}

\* The reconciliation in flight is about to raise the error of a start.
StartFailed == op = "update" /\ tasks = {} /\ failed /\ error \in StartErrors

\* C37: when a start failed during update_processes_from_apps, no app of the
\* call is recorded as running without a running worker: every identity the
\* call added that is in the apps map or in the process map has a live
\* process, so that the same manifest would start the others again.
C37_FailedStartNotRecorded ==
    StartFailed =>
        \A k \in (Keys(apps) \cup Keys(processes)) \ Keys(prev.apps) :
            k \in Keys(processes) /\ IsAlive(processes[k])

(***************************************************************************)
(* server/dev.py: create_webwatcher beside create_streamlit_watcher, and   *)
(* server/prod.py. Both watchers follow the manifest, each with a          *)
(* ComponentsJsonFilter of its own, started from initial_hash.             *)
(***************************************************************************)
\* The source trees of SyncSpec: one app, and the same app with a second
\* one whose route sorts before it.
SyncRegistries ==
    { streamlit(<<>>, <<"/", "b", "/">>, "f"),
      streamlit(streamlit(<<>>, <<"/", "b", "/">>, "f"), <<"/", "a", "/">>, "f") }

\* prod.py is imported by the server process: components =
\* read_artifacts_json(), one router per app of it.
WebImport ==
    /\ webpc = "spawned"
    /\ web_components' = read_artifacts_json(disk)
    /\ webpc' = "serving"
    /\ UNCHANGED <<web_raw, web_hash, webRestarted, appsRestarted>>

\* arun_process hands a changed path to its filter; if the filter lets it
\* through, the server process is stopped and a new one is spawned.
WebPoll(path) ==
    /\ webpc \in {"spawned", "serving"}
    /\ path \in web_raw
    /\ web_raw' = web_raw \ {path}
    /\ LET f == ComponentsJsonFilter(path, disk, web_hash)
       IN  /\ web_hash' = f.prev_hash
           /\ IF f.ret
                THEN /\ webpc' = "spawned"
                     /\ web_components' = ArtifactDict(<<>>, <<>>)
                     /\ webRestarted' = TRUE
                ELSE UNCHANGED <<webpc, web_components, webRestarted>>
    /\ UNCHANGED appsRestarted

\* The source tree changes and the manifest is regenerated: both watchers
\* are told of the paths written.
SyncFileChange(reg) ==
    /\ wpc # "crashed"
    /\ Regenerate(reg, <<>>)
    /\ web_raw' = web_raw \cup {SourcePath}
                    \cup (IF disk' # disk THEN {ManifestPath} ELSE {})
    /\ UNCHANGED <<webpc, web_hash, web_components, webRestarted, appsRestarted>>

\* The reconciliation of an event returns.
SyncUpdateEnd ==
    /\ WatcherUpdateEnd
    /\ appsRestarted' = (appsRestarted \/ (wpc = "update" /\ ~failed))
    /\ UNCHANGED <<webpc, web_raw, web_hash, web_components, webRestarted>>

SyncInit ==
    /\ SupInit
    /\ \E reg \in SyncRegistries :
          disk = File(to_json(ArtifactDict(generate_artifacts_json(reg), <<>>), 2))
    /\ raw = {}
    /\ prev_hash = get_components_hash(disk)
    /\ wpc = "start"
    /\ components = ArtifactDict(<<>>, <<>>)
    /\ atEvent = NoEvent
    /\ webpc = "spawned"
    /\ web_raw = {}
    /\ web_hash = get_components_hash(disk)
    /\ web_components = ArtifactDict(<<>>, <<>>)
    /\ webRestarted = FALSE
    /\ appsRestarted = FALSE
    /\ HistIdle /\ SchedIdle /\ OrchIdle /\ AuxIdle /\ WrIdle /\ JobIdle /\ NetIdle

NotSync == <<histVars, schedVars, orchVars, auxVars, wrVars, jobVars, netVars>>

SyncNext ==
    \/ WatcherStart /\ UNCHANGED <<webVars, NotSync>>
    \/ TaskStep /\ UNCHANGED <<fileVars, runVars, webVars, NotSync>>
    \/ SyncUpdateEnd /\ UNCHANGED NotSync
    \/ (\E path \in Paths : WatcherPoll(path)) /\ UNCHANGED <<webVars, NotSync>>
    \/ WatcherEvent /\ UNCHANGED <<webVars, NotSync>>
    \/ WatcherClearEnd /\ UNCHANGED <<webVars, NotSync>>
    \/ WatcherUpdate /\ UNCHANGED <<webVars, NotSync>>
    \/ WebImport /\ UNCHANGED <<supVars, fileVars, runVars, NotSync>>
    \/ (\E path \in Paths : WebPoll(path)) /\ UNCHANGED <<supVars, fileVars, runVars, NotSync>>
    \/ (\E reg \in SyncRegistries : SyncFileChange(reg)) /\ UNCHANGED <<supVars, runVars, NotSync>>

SyncSpec == SyncInit /\ [][SyncNext]_vars

\* ---- Properties of the two watchers (SyncSpec) ----

\* The ports the proxy forwards the route to: the port of the first router
\* included for it.
ProxyPorts(route) ==
    LET s == web_components.streamlit_apps
        I == { i \in 1..Len(s) : s[i].route = route }
    IN  { s[i].port : i \in { j \in I : \A k \in I : j <= k } }

\* The ports on which a worker of the app is running.
WorkerPorts(uid) ==
    { os[p].port : p \in { q \in DOMAIN os : os[q].alive /\ os[q].filename = Filename(uid) } }

\* Both watchers have handled a change of the manifest and have nothing left
\* to handle.
Settled ==
    /\ wpc = "watch" /\ raw = {} /\ op = "idle"
    /\ webpc = "serving" /\ web_raw = {}
    /\ webRestarted /\ appsRestarted

\* C38: once both watchers have handled a change of the manifest and no
\* change is left to handle, every app of the manifest has a route whose
\* proxy forwards to a port on which a worker of that app is running.
C38_ProxyMatchesWorkers ==
    Settled =>
        \A i \in 1..Len(read_artifacts_json(disk).streamlit_apps) :
            LET app == read_artifacts_json(disk).streamlit_apps[i]
            IN  /\ ProxyPorts(app.route) # {}
                /\ ProxyPorts(app.route) \subseteq WorkerPorts(app.uid)

\* ---- Properties of the ports of a generation (BuildSpec) ----

\* C39: the ports generate_artifacts_json assigns to the n registered apps
\* are pairwise distinct, are exactly BasePort .. BasePort + n - 1, and
\* increase with the route: an app with a lesser route has a lesser port.
C39_PortsDistinctAndOrdered ==
    LET m == generate_artifacts_json(registry)
        n == Len(registry)
    IN  /\ \A i, j \in 1..n : i # j => m[i].port # m[j].port
        /\ { m[i].port : i \in 1..n } = BasePort..(BasePort + n - 1)
        /\ \A i, j \in 1..n :
              StrLess(m[i].route, m[j].route) => m[i].port < m[j].port

\* A generation has written the manifest of two apps registered against the
\* order of their routes.
C39_Witness ==
    /\ Len(registry) = 2
    /\ StrLess(registry[2].route, registry[1].route)
    /\ lastWrite.wrote
    /\ lastWrite.artifacts.streamlit_apps = generate_artifacts_json(registry)

\* ---- Properties of clear() (Spec) ----

\* C40: when clear() returns, the apps map and the process map are empty and
\* for every process the process map held when clear() began a stop was
\* issued, which has killed it.
C40_ClearEmptiesAndStops ==
    [][op = "clear" /\ op' = "idle" /\ ret' # "raised" =>
          /\ apps' = EmptyMap /\ processes' = EmptyMap
          /\ \A k \in Keys(prev.processes) :
                /\ <<"stop", k>> \in issued
                /\ ~IsAlive(prev.processes[k])]_vars

\* clear() has returned after it stopped the workers of two apps.
C40_Witness ==
    /\ op = "idle" /\ ret = "none"
    /\ apps = EmptyMap /\ processes = EmptyMap
    /\ Len(os) >= 2
    /\ \A p \in DOMAIN os : ~os[p].alive

====
